---- MODULE Spec2Model ----
(***************************************************************************)
(* hippo-reasoning: the trace store, the regression store and the HTTP    *)
(* handlers that drive them (lib/hippo.ts, lib/kv-store.ts,               *)
(* app/api/regressions/route.ts, app/api/traces/route.ts), the            *)
(* TraceBuilder, the composable memory store and the gate CLI.            *)
(*                                                                         *)
(* Each request handler runs on a worker.  A handler is cut at its         *)
(* `await`s on the store: an in-memory store operation has no await        *)
(* inside and is one step; a KV store operation is one step per kv call.   *)
(* Optional values (T | undefined) are sequences of length <= 1.           *)
(***************************************************************************)
EXTENDS Integers, Sequences, FiniteSets, TLC

\* ---------------------------------------------------------------- bounds
MaxRequests == 4

\* ------------------------------------------------------------- constants
DefaultMinScore == 70
DefaultScore == 70

Workers == {1, 2}
TraceIds == {"t1", "t2"}
Sessions == {"s1", "s2"}
Queries == {"qa", "qb"}
\* the traces the handlers of Next are given
SomeTraces == {[id |-> "t1", sessionId |-> "s1", query |-> "qa"],
               [id |-> "t2", sessionId |-> "s1", query |-> "qb"]}
\* what the judge's JSON carries in "score", before it is clamped
RawScores == {-5, 69, 150}

None == <<>>
Some(x) == <<x>>

Min2(a, b) == IF a <= b THEN a ELSE b
Max2(a, b) == IF a >= b THEN a ELSE b

EmptyMap == [k \in {} |-> 0]
\* a set that forgets the other keys of the map
MapSetBroken(m, k, v) == [x \in {k} |-> v]
MapSet(m, k, v) == [x \in (DOMAIN m) \cup {k} |-> IF x = k THEN v ELSE m[x]]
MapDelete(m, k) == [x \in (DOMAIN m) \ {k} |-> m[x]]
MapGet(m, k) == IF k \in DOMAIN m THEN Some(m[k]) ELSE None

RECURSIVE Filter(_, _)
Filter(s, keep) ==
  IF s = <<>> THEN <<>>
  ELSE IF Head(s) \in keep THEN <<Head(s)>> \o Filter(Tail(s), keep)
       ELSE Filter(Tail(s), keep)

\* Array.prototype.sort((a, b) => b.createdAt - a.createdAt): stable, descending
RECURSIVE InsertByCreatedAt(_, _)
InsertByCreatedAt(t, s) ==
  IF s = <<>> THEN <<t>>
  ELSE IF Head(s).createdAt >= t.createdAt
       THEN <<Head(s)>> \o InsertByCreatedAt(t, Tail(s))
       ELSE <<t>> \o s

RECURSIVE SortByCreatedAtDesc(_)
SortByCreatedAtDesc(s) ==
  IF s = <<>> THEN <<>>
  ELSE InsertByCreatedAt(s[Len(s)], SortByCreatedAtDesc(SubSeq(s, 1, Len(s) - 1)))

VARIABLES
  backend,        \* "memory" | "kv": which stores createStores() built
  traces,         \* trace id -> ReasoningTrace (Map / "trace:<id>" keys)
  sessionTraces,  \* session id -> trace ids (Map / "session:<id>" keys)
  tests,          \* test id -> RegressionTest (Map / "test:<id>" keys)
  testIndex,      \* the Map's insertion order / the "test:index" key
  nextTestId,     \* the next fresh test id
  pc,             \* worker -> position in its handler
  loc,            \* worker -> the handler's locals
  resp,           \* worker -> the response it returns
  nReq            \* requests received so far
VARIABLES
  cli             \* the gate CLI process (bin/hippo.js)
VARIABLES
  call            \* a call of a library function: its arguments and its result
VARIABLES
  arrays,         \* TraceBuilder: array reference -> the TraceStep[] it names
  stepCounter,    \* TraceBuilder.stepCounter
  completed       \* the traces complete() has returned, oldest first
VARIABLES
  cBase,          \* ComposableMemoryStore: the trace ids in baseStore
  cCalls,         \* the store(trace) calls so far: position and trace id
  cPush,          \* <<call, adapter>> -> outcome of pushToAdapter
  ctxPc,          \* position of the getReasoningContext call
  ctxBase,        \* its baseContext
  ctxSearch,      \* adapter -> outcome of adapter.search
  ctxResults      \* searchAdapters' results array

storeVars == <<traces, sessionTraces>>
regVars == <<tests, testIndex, nextTestId>>
workerVars == <<pc, loc, resp>>
routeVars == <<backend, traces, sessionTraces, tests, testIndex, nextTestId,
               pc, loc, resp, nReq>>
builderVars == <<arrays, stepCounter, completed>>
composableVars == <<cBase, cCalls, cPush, ctxPc, ctxBase, ctxSearch, ctxResults>>
offServer == <<call, arrays, stepCounter, completed,
              cBase, cCalls, cPush, ctxPc, ctxBase, ctxSearch, ctxResults>>
offRoute == <<offServer, cli>>
vars == <<backend, traces, sessionTraces, tests, testIndex, nextTestId,
          pc, loc, resp, nReq, cli, call,
          arrays, stepCounter, completed,
          cBase, cCalls, cPush, ctxPc, ctxBase, ctxSearch, ctxResults>>

TestIds == 1..MaxRequests
Traces == [id : TraceIds, sessionId : Sessions, query : Queries]

Loc0 == [op |-> "none", traceId |-> "", testId |-> 0, trace |-> None,
         test |-> None, run |-> None, idx |-> <<>>, tests |-> <<>>, i |-> 0,
         results |-> <<>>, runs |-> <<>>, startEmpty |-> FALSE]
Resp0 == [status |-> 0, kind |-> "none", gate |-> "none", run |-> None,
          results |-> <<>>, summary |-> ""]

\* Date.now(): a logical clock, which a request's arrival advances; two reads
\* with no arrival between them return the same millisecond
Now == nReq

RouteInit ==
  /\ backend \in {"memory", "kv"}
  /\ traces = EmptyMap
  /\ sessionTraces = [s \in Sessions |-> <<>>]
  /\ tests = EmptyMap
  /\ testIndex = <<>>
  /\ nextTestId = 1
  /\ pc = [w \in Workers |-> "idle"]
  /\ loc = [w \in Workers |-> Loc0]
  /\ resp = [w \in Workers |-> Resp0]
  /\ nReq = 0

\* a request arrives and a free worker handles it
Accept(w) == pc[w] = "idle" /\ nReq < MaxRequests /\ nReq' = nReq + 1

Goto(w, p) == pc' = [pc EXCEPT ![w] = p]
Finish(w, r) == /\ pc' = [pc EXCEPT ![w] = "done"]
                /\ resp' = [resp EXCEPT ![w] = r]

\* ------------------------------------------------------------ trace store

\* MemoryStore.store
StoreMem(w, t) ==
  /\ backend = "memory" /\ Accept(w)
  /\ traces' = MapSet(traces, t.id, t)
  /\ sessionTraces' = [sessionTraces EXCEPT ![t.sessionId] = Append(@, t.id)]
  /\ UNCHANGED <<offRoute, backend, regVars, workerVars>>

\* KVMemoryStore.store: kv.set(trace) ; kv.get(session) ; kv.set(session)
StoreKvSet(w, t) ==
  /\ backend = "kv" /\ Accept(w)
  /\ traces' = MapSet(traces, t.id, t)
  /\ loc' = [loc EXCEPT ![w] = [Loc0 EXCEPT !.op = "store", !.trace = Some(t)]]
  /\ Goto(w, "store_get")
  /\ UNCHANGED <<offRoute, backend, sessionTraces, regVars, resp>>

StoreKvGet(w) ==
  /\ pc[w] = "store_get"
  /\ loc' = [loc EXCEPT ![w].idx = sessionTraces[loc[w].trace[1].sessionId]]
  /\ Goto(w, "store_set")
  /\ UNCHANGED <<offRoute, backend, storeVars, regVars, resp, nReq>>

StoreKvPut(w) ==
  /\ pc[w] = "store_set"
  /\ LET t == loc[w].trace[1] IN
       sessionTraces' = [sessionTraces EXCEPT ![t.sessionId] = Append(loc[w].idx, t.id)]
  /\ loc' = [loc EXCEPT ![w] = Loc0]
  /\ Goto(w, "idle")
  /\ UNCHANGED <<offRoute, backend, traces, regVars, resp, nReq>>

\* the 24 h TTL of a "trace:<id>" or "session:<id>" key lapses
KvExpireTrace(id) ==
  /\ backend = "kv" /\ id \in DOMAIN traces
  /\ traces' = MapDelete(traces, id)
  /\ UNCHANGED <<offRoute, backend, sessionTraces, regVars, workerVars, nReq>>

KvExpireSession(s) ==
  /\ backend = "kv" /\ sessionTraces[s] # <<>>
  /\ sessionTraces' = [sessionTraces EXCEPT ![s] = <<>>]
  /\ UNCHANGED <<offRoute, backend, traces, regVars, workerVars, nReq>>

\* GET /api/traces?traceId=...
GetTrace(w, id) ==
  /\ Accept(w)
  /\ loc' = [loc EXCEPT ![w] = [Loc0 EXCEPT !.op = "get", !.traceId = id]]
  /\ Finish(w, IF id \in DOMAIN traces
               THEN [Resp0 EXCEPT !.status = 200, !.kind = "trace"]
               ELSE [Resp0 EXCEPT !.status = 404, !.kind = "error"])
  /\ UNCHANGED <<offRoute, backend, storeVars, regVars>>

\* a clear that cascades to the tests made from the traces it removes
ClearMemCascades(w) ==
  /\ backend = "memory" /\ Accept(w)
  /\ traces' = EmptyMap
  /\ sessionTraces' = [s \in Sessions |-> <<>>]
  /\ tests' = EmptyMap
  /\ testIndex' = <<>>
  /\ loc' = [loc EXCEPT ![w] = [Loc0 EXCEPT !.op = "clear"]]
  /\ Finish(w, [Resp0 EXCEPT !.status = 200, !.kind = "cleared"])
  /\ UNCHANGED <<offRoute, backend, nextTestId>>

\* DELETE /api/traces -> MemoryStore.clear
ClearMem(w) ==
  /\ backend = "memory" /\ Accept(w)
  /\ traces' = EmptyMap
  /\ sessionTraces' = [s \in Sessions |-> <<>>]
  /\ loc' = [loc EXCEPT ![w] = [Loc0 EXCEPT !.op = "clear"]]
  /\ Finish(w, [Resp0 EXCEPT !.status = 200, !.kind = "cleared"])
  /\ UNCHANGED <<offRoute, backend, regVars>>

\* DELETE /api/traces -> KVMemoryStore.clear: the "trace:*" keys, then the
\* "session:*" keys (the scan and the dels of one prefix are taken as one step)
ClearKvTraces(w) ==
  /\ backend = "kv" /\ Accept(w)
  /\ traces' = EmptyMap
  /\ loc' = [loc EXCEPT ![w] = [Loc0 EXCEPT !.op = "clear"]]
  /\ Goto(w, "clear_sessions")
  /\ UNCHANGED <<offRoute, backend, sessionTraces, regVars, resp>>

ClearKvSessions(w) ==
  /\ pc[w] = "clear_sessions"
  /\ sessionTraces' = [s \in Sessions |-> <<>>]
  /\ Finish(w, [Resp0 EXCEPT !.status = 200, !.kind = "cleared"])
  /\ UNCHANGED <<offRoute, backend, traces, regVars, loc, nReq>>

\* ------------------------------------------------------- regression store

\* RegressionStore.createFromTrace / KVRegressionStore.createFromTrace: the test
NewTest(id, trace, t) ==
  [id |-> id, sourceTraceId |-> trace.id, query |-> trace.query,
   minScore |-> DefaultMinScore, createdAt |-> t,
   lastRunAt |-> None, lastRunPassed |-> None, runs |-> <<>>]

\* score = Math.min(100, Math.max(0, parsed.score ?? 70)), 70 when the JSON
\* does not parse; j is None (no score) or Some(n)
ParseScore(j) == IF j = None THEN DefaultScore ELSE Min2(100, Max2(0, j[1]))

Judged == {None} \cup {Some(n) : n \in RawScores}

\* a verdict that fails a score equal to the threshold
MakeRunStrict(score, minScore, t) ==
  [timestamp |-> t, passed |-> (score > minScore), score |-> score,
   delta |-> score - minScore]
\* the RegressionRun of actions run and run_all
MakeRun(score, minScore, t) ==
  [timestamp |-> t, passed |-> (score >= minScore), score |-> score,
   delta |-> score - minScore]

\* addRun's update of the test it found
AddRun(test, run) ==
  [test EXCEPT !.runs = Append(@, run), !.lastRunAt = Some(run.timestamp),
               !.lastRunPassed = Some(run.passed)]

\* the tests of the store, in Map insertion order / index order
RECURSIVE Lookup(_, _)
Lookup(ids, m) ==
  IF ids = <<>> THEN <<>>
  ELSE IF Head(ids) \in DOMAIN m THEN <<m[Head(ids)]>> \o Lookup(Tail(ids), m)
       ELSE Lookup(Tail(ids), m)

\* a count that stops at the first failed result
\* MemoryStore.getBySession(sessionId):
\* ids.map(id => this.traces.get(id)!).filter(Boolean)
getBySession(sessionId) == Lookup(sessionTraces[sessionId], traces)

\* KVMemoryStore.getBySession(sessionId): the traces the ids of the session
\* key lead to; its sort by startedAt changes their order only
kvGetBySession(sessionId) == Lookup(sessionTraces[sessionId], traces)

\* MemoryStore.getSize(): this.traces.size
getSize == Cardinality(DOMAIN traces)

\* the traces a caller of the store may hand to store(): an id may come
\* again, under the same session or under another
StoreTraces == [id : TraceIds, sessionId : Sessions, query : {"qa"}]

RECURSIVE CountLeadingPassed(_)
CountLeadingPassed(results) ==
  IF results = <<>> \/ ~Head(results).passed THEN 0
  ELSE 1 + CountLeadingPassed(Tail(results))

RECURSIVE CountPassed(_)
CountPassed(results) ==
  IF results = <<>> THEN 0
  ELSE (IF Head(results).passed THEN 1 ELSE 0) + CountPassed(Tail(results))

\* a gate that follows the test that ran last
GateLast(results) == IF results[Len(results)].passed THEN "PASS" ELSE "FAIL"

\* a gate that passes as soon as one test passed
GateAny(results) ==
  IF \E i \in 1..Len(results) : results[i].passed THEN "PASS" ELSE "FAIL"
\* results.every(r => r.passed) ? 'PASS' : 'FAIL'
Gate(results) ==
  IF \A i \in 1..Len(results) : results[i].passed THEN "PASS" ELSE "FAIL"

\* `${results.filter(r => r.passed).length}/${results.length} passed`
Summary(results) ==
  ToString(CountPassed(results)) \o "/" \o ToString(Len(results)) \o " passed"

\* an empty run answered as a passed gate
SkipAsPass == [Resp0 EXCEPT !.status = 200, !.kind = "gate", !.gate = "PASS"]
\* Response.json({error: 'No regression tests', gate: 'skip'}, {status: 400})
SkipResponse == [Resp0 EXCEPT !.status = 400, !.kind = "error", !.gate = "skip"]
NotFound == [Resp0 EXCEPT !.status = 404, !.kind = "error"]
GateResponse(results) ==
  [Resp0 EXCEPT !.status = 200, !.kind = "gate", !.gate = Gate(results),
                !.results = results, !.summary = Summary(results)]

\* what a handler reads of a test it holds: its id and its threshold
Held(test) == [id |-> test.id, minScore |-> test.minScore]

RECURSIVE HeldAll(_)
HeldAll(s) == IF s = <<>> THEN <<>> ELSE <<Held(Head(s))>> \o HeldAll(Tail(s))

\* POST {action: 'create', traceId}: hippoMemory.get(traceId)
CreateGet(w, tid) ==
  /\ Accept(w)
  /\ IF tid \in DOMAIN traces
     THEN /\ nextTestId' = nextTestId + 1
          /\ loc' = [loc EXCEPT ![w] = [Loc0 EXCEPT !.op = "create", !.traceId = tid,
                                         !.trace = Some(traces[tid]),
                                         !.testId = nextTestId]]
          /\ Goto(w, "create_put")
          /\ UNCHANGED resp
     ELSE /\ loc' = [loc EXCEPT ![w] = [Loc0 EXCEPT !.op = "create", !.traceId = tid]]
          /\ Finish(w, NotFound)
          /\ UNCHANGED nextTestId
  /\ UNCHANGED <<offRoute, backend, storeVars, tests, testIndex>>

\* RegressionStore.createFromTrace
CreateMem(w) ==
  /\ backend = "memory" /\ pc[w] = "create_put"
  /\ LET t == Now IN
       LET test == NewTest(loc[w].testId, loc[w].trace[1], t) IN
         /\ tests' = MapSet(tests, test.id, test)
         /\ testIndex' = Append(testIndex, test.id)
         /\ Finish(w, [Resp0 EXCEPT !.status = 200, !.kind = "created"])
  /\ UNCHANGED <<offRoute, backend, storeVars, nextTestId, loc, nReq>>

\* KVRegressionStore.createFromTrace: kv.set(test) ; kv.get(index) ; kv.set(index)
CreateKvSet(w) ==
  /\ backend = "kv" /\ pc[w] = "create_put"
  /\ LET t == Now IN
       LET test == NewTest(loc[w].testId, loc[w].trace[1], t) IN
         tests' = MapSet(tests, test.id, test)
  /\ Goto(w, "create_idx_get")
  /\ UNCHANGED <<offRoute, backend, storeVars, testIndex, nextTestId, loc, resp, nReq>>

CreateKvIdxGet(w) ==
  /\ pc[w] = "create_idx_get"
  /\ loc' = [loc EXCEPT ![w].idx = testIndex]
  /\ Goto(w, "create_idx_set")
  /\ UNCHANGED <<offRoute, backend, storeVars, regVars, resp, nReq>>

CreateKvIdxPut(w) ==
  /\ pc[w] = "create_idx_set"
  /\ testIndex' = Append(loc[w].idx, loc[w].testId)
  /\ Finish(w, [Resp0 EXCEPT !.status = 200, !.kind = "created"])
  /\ UNCHANGED <<offRoute, backend, storeVars, tests, nextTestId, loc, nReq>>

\* a handler that fabricates a default test for an id the store does not hold
RunGetFabricates(w, id) ==
  /\ Accept(w)
  /\ loc' = [loc EXCEPT ![w] = [Loc0 EXCEPT !.op = "run", !.testId = id,
                                !.tests = <<[id |-> id, minScore |-> DefaultMinScore]>>,
                                !.i = 1]]
  /\ Goto(w, "run_llm")
  /\ UNCHANGED <<offRoute, backend, storeVars, regVars, resp>>

\* POST {action: 'run', testId}: hippoRegressions.get(testId)
RunGet(w, id) ==
  /\ Accept(w)
  /\ IF id \in DOMAIN tests
     THEN /\ loc' = [loc EXCEPT ![w] = [Loc0 EXCEPT !.op = "run", !.testId = id,
                                         !.tests = <<Held(tests[id])>>, !.i = 1]]
          /\ Goto(w, "run_llm")
          /\ UNCHANGED resp
     ELSE /\ loc' = [loc EXCEPT ![w] = [Loc0 EXCEPT !.op = "run", !.testId = id]]
          /\ Finish(w, NotFound)
  /\ UNCHANGED <<offRoute, backend, storeVars, regVars>>

\* the two generateText calls return; the run is built (route.ts 55-71, 104-118)
Judge(w, j) ==
  /\ pc[w] \in {"run_llm", "all_llm"}
  /\ LET t == Now IN
       /\ loc' = [loc EXCEPT ![w].run =
                    Some(MakeRun(ParseScore(j), loc[w].tests[loc[w].i].minScore, t))]
  /\ Goto(w, IF pc[w] = "run_llm" THEN "run_add" ELSE "all_add")
  /\ UNCHANGED <<offRoute, backend, storeVars, regVars, resp, nReq>>

\* what the handler does once addRun has resolved: action run responds with the
\* run (and the test read again, which the response here leaves out); action
\* run_all pushes the result and goes on, or responds with the gate
AfterAddRun(w, l) ==
  IF l.op = "run"
  THEN /\ loc' = [loc EXCEPT ![w] = l]
       /\ Finish(w, [Resp0 EXCEPT !.status = 200, !.kind = "run", !.run = l.run])
  ELSE LET t == l.tests[l.i]
           results == Append(l.results,
                             [testId |-> t.id, passed |-> l.run[1].passed,
                              score |-> l.run[1].score])
       IN IF l.i < Len(l.tests)
          THEN /\ loc' = [loc EXCEPT ![w] = [l EXCEPT !.results = results,
                                                     !.runs = Append(@, l.run[1]),
                                                     !.i = l.i + 1, !.run = None,
                                                     !.test = None]]
               /\ Goto(w, "all_llm")
               /\ UNCHANGED resp
          ELSE /\ loc' = [loc EXCEPT ![w] = [l EXCEPT !.results = results,
                                                     !.runs = Append(@, l.run[1])]]
               /\ Finish(w, GateResponse(results))

\* RegressionStore.addRun
AddRunMem(w) ==
  /\ backend = "memory" /\ pc[w] \in {"run_add", "all_add"}
  /\ LET id == loc[w].tests[loc[w].i].id IN
       tests' = IF id \in DOMAIN tests
                THEN MapSet(tests, id, AddRun(tests[id], loc[w].run[1]))
                ELSE tests
  /\ AfterAddRun(w, loc[w])
  /\ UNCHANGED <<offRoute, backend, storeVars, testIndex, nextTestId, nReq>>

\* KVRegressionStore.addRun: kv.get(test) ; kv.set(test)
AddRunKvGet(w) ==
  /\ backend = "kv" /\ pc[w] \in {"run_add", "all_add"}
  /\ LET id == loc[w].tests[loc[w].i].id
         l == [loc[w] EXCEPT !.test = MapGet(tests, id)]
     IN IF l.test = None
        THEN AfterAddRun(w, l)
        ELSE /\ loc' = [loc EXCEPT ![w] = l]
             /\ Goto(w, IF pc[w] = "run_add" THEN "run_add_set" ELSE "all_add_set")
             /\ UNCHANGED resp
  /\ UNCHANGED <<offRoute, backend, storeVars, regVars, nReq>>

AddRunKvPut(w) ==
  /\ pc[w] \in {"run_add_set", "all_add_set"}
  /\ LET t == loc[w].test[1] IN
       tests' = MapSet(tests, t.id, AddRun(t, loc[w].run[1]))
  /\ AfterAddRun(w, loc[w])
  /\ UNCHANGED <<offRoute, backend, storeVars, testIndex, nextTestId, nReq>>

\* what run_all does with the list getAll returned
AfterGetAll(w, l, all) ==
  IF all = <<>>
  THEN /\ loc' = [loc EXCEPT ![w] = l]
       /\ Finish(w, SkipResponse)
  ELSE /\ loc' = [loc EXCEPT ![w] = [l EXCEPT !.tests = HeldAll(all), !.i = 1]]
       /\ Goto(w, "all_llm")
       /\ UNCHANGED resp

NoTests == DOMAIN tests = {} /\ testIndex = <<>>

\* POST {action: 'run_all'}: RegressionStore.getAll
RunAllMem(w) ==
  /\ backend = "memory" /\ Accept(w)
  /\ LET all == SortByCreatedAtDesc(Lookup(testIndex, tests)) IN
       AfterGetAll(w, [Loc0 EXCEPT !.op = "run_all", !.startEmpty = NoTests], all)
  /\ UNCHANGED <<offServer, backend, storeVars, regVars>>

\* ... sent by some other client than the CLI
GetAllMem(w) == RunAllMem(w) /\ UNCHANGED cli

\* POST {action: 'run_all'}: KVRegressionStore.getAll: kv.get(index) ; kv.get(test) ...
GetAllKvIdx(w) ==
  /\ backend = "kv" /\ Accept(w)
  /\ LET l == [Loc0 EXCEPT !.op = "run_all", !.startEmpty = NoTests,
                           !.idx = testIndex, !.i = 1]
     IN IF testIndex = <<>>
        THEN AfterGetAll(w, l, <<>>)
        ELSE /\ loc' = [loc EXCEPT ![w] = l]
             /\ Goto(w, "all_fetch")
             /\ UNCHANGED resp
  /\ UNCHANGED <<offRoute, backend, storeVars, regVars>>

GetAllKvFetch(w) ==
  /\ pc[w] = "all_fetch"
  /\ LET l == loc[w]
         got == l.tests \o MapGet(tests, l.idx[l.i])
     IN IF l.i < Len(l.idx)
        THEN /\ loc' = [loc EXCEPT ![w] = [l EXCEPT !.tests = got, !.i = l.i + 1]]
             /\ UNCHANGED <<pc, resp>>
        ELSE AfterGetAll(w, l, SortByCreatedAtDesc(got))
  /\ UNCHANGED <<offRoute, backend, storeVars, regVars, nReq>>

\* DELETE {testId}: RegressionStore.delete
DeleteMem(w, id) ==
  /\ backend = "memory" /\ Accept(w)
  /\ tests' = MapDelete(tests, id)
  /\ testIndex' = Filter(testIndex, (TestIds) \ {id})
  /\ loc' = [loc EXCEPT ![w] = [Loc0 EXCEPT !.op = "delete", !.testId = id]]
  /\ Finish(w, [Resp0 EXCEPT !.status = 200, !.kind = "deleted"])
  /\ UNCHANGED <<offRoute, backend, storeVars, nextTestId>>

\* DELETE {testId}: KVRegressionStore.delete: kv.del(test) ; kv.get(index) ; kv.set(index)
DeleteKvDel(w, id) ==
  /\ backend = "kv" /\ Accept(w)
  /\ tests' = MapDelete(tests, id)
  /\ loc' = [loc EXCEPT ![w] = [Loc0 EXCEPT !.op = "delete", !.testId = id]]
  /\ Goto(w, "del_idx_get")
  /\ UNCHANGED <<offRoute, backend, storeVars, testIndex, nextTestId, resp>>

DeleteKvIdxGet(w) ==
  /\ pc[w] = "del_idx_get"
  /\ loc' = [loc EXCEPT ![w].idx = testIndex]
  /\ Goto(w, "del_idx_set")
  /\ UNCHANGED <<offRoute, backend, storeVars, regVars, resp, nReq>>

DeleteKvIdxPut(w) ==
  /\ pc[w] = "del_idx_set"
  /\ testIndex' = Filter(loc[w].idx, (TestIds) \ {loc[w].testId})
  /\ Finish(w, [Resp0 EXCEPT !.status = 200, !.kind = "deleted"])
  /\ UNCHANGED <<offRoute, backend, storeVars, tests, nextTestId, loc, nReq>>

\* the response leaves; the worker takes the next request
Leave(w) ==
  /\ pc[w] = "done"
  /\ pc' = [pc EXCEPT ![w] = "idle"]
  /\ loc' = [loc EXCEPT ![w] = Loc0]
  /\ resp' = [resp EXCEPT ![w] = Resp0]
  /\ UNCHANGED <<offServer, backend, storeVars, regVars, nReq>>

Respond(w) == cli.worker # w /\ Leave(w) /\ UNCHANGED cli

\* ------------------------------------------------------ bin/hippo.js gate

Cli0 == [pc |-> "ready", worker |-> 0, gate |-> "none", exit |-> None]

\* an exit code that blocks on a skipped run
ExitCodeSkipBlocks(ok, gate) == IF ok /\ gate = "PASS" THEN 0 ELSE 1
\* main's process.exit: 0 on a skip (res not ok, errBody.gate === 'skip'), 1 on
\* any other response that is not ok, else gate === 'PASS' ? 0 : 1
ExitCode(ok, gate) ==
  IF ~ok THEN (IF gate = "skip" THEN 0 ELSE 1)
  ELSE IF gate = "PASS" THEN 0 ELSE 1

\* main: fetch(POST /api/regressions {action: 'run_all'}) reaches the server
CliFetch(w) ==
  /\ cli.pc = "ready"
  /\ RunAllMem(w)
  /\ cli' = [cli EXCEPT !.pc = "waiting", !.worker = w]

\* main: fetch throws (no server at the url): [ERROR], process.exit(1)
CliFetchFails ==
  /\ cli.pc = "ready"
  /\ cli' = [cli EXCEPT !.pc = "exited", !.exit = Some(1)]
  /\ UNCHANGED <<offServer, routeVars>>

\* main: the response arrives; the verdict is printed; process.exit
CliExit(w) ==
  /\ cli.pc = "waiting" /\ cli.worker = w
  /\ Leave(w)
  /\ cli' = [pc |-> "exited", worker |-> 0, gate |-> resp[w].gate,
             exit |-> Some(ExitCode(resp[w].status = 200, resp[w].gate))]

\* the test ids a request names: those handed out so far and one never used
KnownIds == 1..nextTestId

CliInit == cli = Cli0

\* ----------------------------------------------------------- TraceBuilder

MaxSteps == 3
MaxCompletes == 2

StepTypes == {"user_message", "tool_call", "assistant_message"}
\* metadata.toolName as the caller gives it; "" is a name that is not truthy
ToolNames == {"search", "calc", ""}
Summaries == {"sum"}

\* the array `private steps: TraceStep[] = []` of the one builder
StepsRef == 1

BuilderInit ==
  /\ arrays = [r \in {StepsRef} |-> <<>>]
  /\ stepCounter = 0
  /\ completed = <<>>

RECURSIVE Uniq(_)
Uniq(s) ==
  IF s = <<>> THEN <<>>
  ELSE LET rest == Uniq(SubSeq(s, 1, Len(s) - 1))
           x == s[Len(s)]
       IN IF \E i \in 1..Len(rest) : rest[i] = x THEN rest ELSE Append(rest, x)

\* a derivation that takes the names of every kind of step
RECURSIVE AllStepNames(_)
AllStepNames(steps) ==
  IF steps = <<>> THEN <<>>
  ELSE Head(steps).toolName \o AllStepNames(Tail(steps))

RECURSIVE ToolCallNames(_)
ToolCallNames(steps) ==
  IF steps = <<>> THEN <<>>
  ELSE (IF Head(steps).type = "tool_call" /\ Head(steps).toolName # Some("")
        THEN Head(steps).toolName ELSE <<>>)
       \o ToolCallNames(Tail(steps))

\* [...new Set(steps.filter(tool_call with a toolName).map(toolName))]
ToolsUsed(steps) == Uniq(ToolCallNames(steps))

\* TraceBuilder.addStep(type, content, metadata); name is metadata?.toolName
addStep(type, name) ==
  /\ Len(arrays[StepsRef]) < MaxSteps
  /\ stepCounter' = stepCounter + 1
  /\ arrays' = [arrays EXCEPT ![StepsRef] =
                  Append(@, [id |-> stepCounter + 1, type |-> type, toolName |-> name])]
  /\ UNCHANGED <<completed, routeVars, cli, call, composableVars>>

\* TraceBuilder.complete(summary): the trace holds `steps: this.steps`, the
\* builder's own array
complete(summary) ==
  /\ Len(completed) < MaxCompletes
  /\ completed' = Append(completed,
                         [steps |-> StepsRef,
                          toolsUsed |-> ToolsUsed(arrays[StepsRef]),
                          stepCount |-> Len(arrays[StepsRef]),
                          summary |-> summary])
  /\ UNCHANGED <<arrays, stepCounter, routeVars, cli, call, composableVars>>

BuilderNext ==
  \/ \E type \in StepTypes, name \in {None} \cup {Some(n) : n \in ToolNames} :
       addStep(type, name)
  \/ \E summary \in {None} \cup {Some(x) : x \in Summaries} : complete(summary)

\* ------------------------------------------------- ComposableMemoryStore

MaxCalls == 2

Adapters == {"mem0", "zep"}
\* a call to an adapter is pending, or it resolved ("ok", for a search "hits"
\* when it found something), or it threw, or it will never return ("hung")
Settled == {"ok", "hits", "thrown"}

ComposableInit ==
  /\ cBase = {}
  /\ cCalls = <<>>
  /\ cPush = EmptyMap
  /\ ctxPc = "idle"
  /\ ctxBase = {}
  /\ ctxSearch = [a \in Adapters |-> "none"]
  /\ ctxResults = <<>>

\* store(trace): the call; it awaits baseStore.store(trace)
CStoreCall(t) ==
  /\ Len(cCalls) < MaxCalls
  /\ \A i \in 1..Len(cCalls) : cCalls[i].pc = "returned"
  /\ cCalls' = Append(cCalls, [pc |-> "base", trace |-> t])
  /\ UNCHANGED <<cBase, cPush, ctxPc, ctxBase, ctxSearch, ctxResults,
                 routeVars, cli, call, builderVars>>

\* baseStore.store(trace) resolves
CStoreBase(c) ==
  /\ c \in 1..Len(cCalls) /\ cCalls[c].pc = "base"
  /\ cBase' = cBase \cup {cCalls[c].trace}
  /\ cCalls' = [cCalls EXCEPT ![c].pc = "fanout"]
  /\ UNCHANGED <<cPush, ctxPc, ctxBase, ctxSearch, ctxResults,
                 routeVars, cli, call, builderVars>>

\* the loop calls pushToAdapter for every adapter, awaits none, and store returns
CStoreFanOut(c) ==
  /\ c \in 1..Len(cCalls) /\ cCalls[c].pc = "fanout"
  /\ cPush' = [k \in (DOMAIN cPush) \cup {<<c, a>> : a \in Adapters} |->
                 IF k \in DOMAIN cPush THEN cPush[k] ELSE "pending"]
  /\ cCalls' = [cCalls EXCEPT ![c].pc = "returned"]
  /\ UNCHANGED <<cBase, ctxPc, ctxBase, ctxSearch, ctxResults,
                 routeVars, cli, call, builderVars>>

\* pushToAdapter: adapter.store resolves, or throws (caught and logged), or
\* never returns
CPushSettles(k, outcome) ==
  /\ k \in DOMAIN cPush /\ cPush[k] = "pending"
  /\ cPush' = [cPush EXCEPT ![k] = outcome]
  /\ UNCHANGED <<cBase, cCalls, ctxPc, ctxBase, ctxSearch, ctxResults,
                 routeVars, cli, call, builderVars>>

\* getReasoningContext: the call; it awaits baseStore.getReasoningContext
CtxCall ==
  /\ ctxPc \in {"idle", "returned"}
  /\ ctxPc' = "base"
  /\ ctxBase' = {}
  /\ ctxSearch' = [a \in Adapters |-> "none"]
  /\ ctxResults' = <<>>
  /\ UNCHANGED <<cBase, cCalls, cPush, routeVars, cli, call, builderVars>>

\* the base context resolves; searchAdapters calls every adapter.search and
\* awaits Promise.allSettled(searches)
CtxBase ==
  /\ ctxPc = "base"
  /\ ctxBase' = cBase
  /\ ctxSearch' = [a \in Adapters |-> "pending"]
  /\ ctxPc' = "searching"
  /\ UNCHANGED <<cBase, cCalls, cPush, ctxResults, routeVars, cli, call, builderVars>>

\* one adapter.search resolves without hits or with hits (results.push), or
\* throws (caught and logged), or never returns
CtxSearchSettles(a, outcome) ==
  /\ ctxPc = "searching" /\ ctxSearch[a] = "pending"
  /\ ctxSearch' = [ctxSearch EXCEPT ![a] = outcome]
  /\ ctxResults' = IF outcome = "hits" THEN Append(ctxResults, a) ELSE ctxResults
  /\ UNCHANGED <<cBase, cCalls, cPush, ctxPc, ctxBase, routeVars, cli, call, builderVars>>

\* Promise.allSettled resolves once every search has; getReasoningContext
\* returns baseContext, with the enrichment after it when there is one
CtxReturn ==
  /\ ctxPc = "searching"
  /\ \A a \in Adapters : ctxSearch[a] \in Settled
  /\ ctxPc' = "returned"
  /\ UNCHANGED <<cBase, cCalls, cPush, ctxBase, ctxSearch, ctxResults,
                 routeVars, cli, call, builderVars>>

ComposableNext ==
  \/ \E t \in TraceIds : CStoreCall(t)
  \/ \E c \in 1..MaxCalls : CStoreBase(c)
  \/ \E c \in 1..MaxCalls : CStoreFanOut(c)
  \/ \E c \in 1..MaxCalls, a \in Adapters, o \in {"ok", "thrown", "hung"} :
       CPushSettles(<<c, a>>, o)
  \/ CtxCall
  \/ CtxBase
  \/ \E a \in Adapters, o \in {"ok", "hits", "thrown", "hung"} : CtxSearchSettles(a, o)
  \/ CtxReturn

\* the requests and steps that are the same for both stores
RouteNext ==
  \/ \E w \in Workers, id \in TraceIds : GetTrace(w, id)
  \/ \E w \in Workers, id \in TraceIds : CreateGet(w, id)
  \/ \E w \in Workers, id \in KnownIds : RunGet(w, id)
  \/ \E w \in Workers, j \in Judged : Judge(w, j)
  \/ \E w \in Workers : Respond(w)

\* hippoMemory / hippoRegressions are the in-memory stores
MemNext ==
  \/ \E w \in Workers, t \in SomeTraces : StoreMem(w, t)
  \/ \E w \in Workers : ClearMem(w)
  \/ \E w \in Workers : CreateMem(w)
  \/ \E w \in Workers : AddRunMem(w)
  \/ \E w \in Workers : GetAllMem(w)
  \/ \E w \in Workers, id \in KnownIds : DeleteMem(w, id)

\* hippoMemory / hippoRegressions are the KV stores (KV_REST_API_URL is set)
KvNext ==
  \/ \E w \in Workers, t \in SomeTraces : StoreKvSet(w, t)
  \/ \E w \in Workers : StoreKvGet(w)
  \/ \E w \in Workers : StoreKvPut(w)
  \/ \E id \in TraceIds : KvExpireTrace(id)
  \/ \E s \in Sessions : KvExpireSession(s)
  \/ \E w \in Workers : ClearKvTraces(w)
  \/ \E w \in Workers : ClearKvSessions(w)
  \/ \E w \in Workers : CreateKvSet(w)
  \/ \E w \in Workers : CreateKvIdxGet(w)
  \/ \E w \in Workers : CreateKvIdxPut(w)
  \/ \E w \in Workers : AddRunKvGet(w)
  \/ \E w \in Workers : AddRunKvPut(w)
  \/ \E w \in Workers : GetAllKvIdx(w)
  \/ \E w \in Workers : GetAllKvFetch(w)
  \/ \E w \in Workers, id \in KnownIds : DeleteKvDel(w, id)
  \/ \E w \in Workers : DeleteKvIdxGet(w)
  \/ \E w \in Workers : DeleteKvIdxPut(w)

\* the gate CLI, run once against the server
CliNext ==
  \/ \E w \in Workers : CliFetch(w)
  \/ CliFetchFails
  \/ \E w \in Workers : CliExit(w)

Next == RouteNext \/ MemNext \/ CliNext
NextKv == RouteNext \/ KvNext

\* ------------------------------------------------------- memory policy

MaxPool == 3

\* Math.round(a / b) for b > 0: the nearest integer, a half going up
RoundDiv(a, b) == (2 * a + b) \div (2 * b)

\* a clamp that has the upper bound only
clampAbove(a, b) == Min2(100, RoundDiv(a, b))

\* clamp(value) for value = a / b: Math.max(0, Math.min(100, Math.round(value)))
clamp(a, b) == Max2(0, Min2(100, RoundDiv(a, b)))

\* scoreTrace(trace).quality
quality(trace) ==
  clamp(50 + (IF trace.summaryLen < 100 THEN -30
              ELSE IF trace.summaryLen >= 200 THEN 15 ELSE 0)
           + Min2(trace.tools * 10, 30)
           + (IF trace.stepCount = 0 THEN -40 ELSE 0), 1)

\* scoreTrace(trace).usefulness: (cappedSteps / 20) * 65 + tools + summary
usefulness(trace) ==
  clamp(Min2(trace.stepCount, 20) * 65
          + 20 * (Min2(trace.tools * 5, 25) + (IF trace.summaryLen > 0 THEN 10 ELSE 0)),
        20)

\* scoreTrace(trace).efficiency: the penalty per step is taken only when
\* stepCount > 0, and the value is kept over the denominator 1000 * stepCount
\* then, over 1000 otherwise
efficiency(trace) ==
  IF trace.stepCount = 0 THEN 0
  ELSE LET n == trace.stepCount
           ms == trace.totalLatencyMs
           total == IF ms > 60000 THEN Min2(ms - 60000, 40000) ELSE 0
       IN IF n > 0
          THEN LET perStep == IF ms > 1000 * n THEN 5 * (ms - 1000 * n) ELSE 0
               IN clamp(100000 * n - perStep - n * total, 1000 * n)
          ELSE clamp(100000 - total, 1000)

\* scoreTrace(trace).overall = clamp(quality * 0.35 + usefulness * 0.40 + efficiency * 0.25)
scoreTrace(trace) ==
  clamp(35 * quality(trace) + 40 * usefulness(trace) + 25 * efficiency(trace), 100)

\* what scoreTrace returns
TraceScore(trace) ==
  [traceId |-> trace.id, quality |-> quality(trace), usefulness |-> usefulness(trace),
   efficiency |-> efficiency(trace), overall |-> scoreTrace(trace)]

\* the policies; decay is decayRate * 100, the points of score lost per hour
AGGRESSIVE_POLICY ==
  [id |-> "aggressive", maxTraces |-> 50, minScore |-> 60, decay |-> 10]
BALANCED_POLICY ==
  [id |-> "balanced", maxTraces |-> 200, minScore |-> 30, decay |-> 5]
ARCHIVE_ALL_POLICY ==
  [id |-> "archive-all", maxTraces |-> 1000, minScore |-> 0, decay |-> 0]
\* a policy of the caller's: a small budget and a predicate that keeps everything
SmallPolicy ==
  [id |-> "small", maxTraces |-> 2, minScore |-> 50, decay |-> 5]
Policies == {AGGRESSIVE_POLICY, BALANCED_POLICY, ARCHIVE_ALL_POLICY, SmallPolicy}

\* policy.shouldRetain(trace, score, ageHours), the age given in minutes:
\* score.overall - ageHours * rate * 100 >= threshold
shouldRetain(policy, overall, ageMin) ==
  CASE policy.id = "aggressive" -> 60 * overall - ageMin * 10 >= 60 * 60
    [] policy.id = "balanced" -> 60 * overall - ageMin * 5 >= 60 * 30
    [] OTHER -> TRUE

\* the objects of the heap are traces, as far as scoreTrace and applyPolicy
\* read them; times are in minutes
Rich(id, at) ==
  [id |-> id, summaryLen |-> 200, tools |-> 3, stepCount |-> 20,
   totalLatencyMs |-> 10000, completedAt |-> at]
Medium(id, at) ==
  [id |-> id, summaryLen |-> 100, tools |-> 1, stepCount |-> 8,
   totalLatencyMs |-> 8000, completedAt |-> at]
Poor(id, at) ==
  [id |-> id, summaryLen |-> 0, tools |-> 0, stepCount |-> 0,
   totalLatencyMs |-> 0, completedAt |-> at]
TraceKinds == {"rich", "medium", "poor"}
MakeTrace(kind, id, at) ==
  CASE kind = "rich" -> Rich(id, at)
    [] kind = "medium" -> Medium(id, at)
    [] OTHER -> Poor(id, at)

\* Date.now() of the call, and the completedAt of the traces: now, an hour
\* ago, two hours ago
PolicyNow == 120
CompletedAts == {0, 60, 120}

\* applyPolicy: scored = traces.map(...)
Scored(heap, pool, policy, now) ==
  [i \in 1..Len(pool) |->
     LET trace == heap[pool[i]]
         overall == scoreTrace(trace)
         ageMin == now - trace.completedAt
     IN [ref |-> pool[i], overall |-> overall, ageMin |-> ageMin,
         decayedOverall |-> clamp(60 * overall - ageMin * policy.decay, 60)]]

\* applyPolicy: retained = scored.filter(...)
Retained(scored, policy) ==
  LET keep(x) == /\ ~(x.overall < policy.minScore)
                 /\ shouldRetain(policy, x.overall, x.ageMin)
  IN SelectSeq(scored, keep)

\* retained.sort((a, b) => b.decayedOverall - a.decayedOverall), a stable sort.
\* The place of s[i] after the sort: behind every element the comparator puts
\* first, and behind the equal elements that came before it
RankByDecayed(s, i) ==
  1 + Cardinality({j \in 1..Len(s) :
                     \/ s[j].decayedOverall > s[i].decayedOverall
                     \/ s[j].decayedOverall = s[i].decayedOverall /\ j < i})

\* a sort that leaves the survivors in the order of the input
SortNone(s) == s

SortByDecayedDesc(s) ==
  [k \in 1..Len(s) |-> s[CHOOSE i \in 1..Len(s) : RankByDecayed(s, i) = k]]

\* a truncation that is one too long
TruncateLoose(s, k) == SubSeq(s, 1, Min2(k + 1, Len(s)))

\* retained.slice(0, policy.maxTraces)
Truncate(s, k) == SubSeq(s, 1, Min2(k, Len(s)))

\* {...trace, score: score.overall}
Stamped(trace, overall) ==
  [f \in DOMAIN trace \cup {"score"} |-> IF f = "score" THEN overall ELSE trace[f]]

\* a return that stamps the score on the traces it was given
StampInPlace(heap, final) ==
  [heap |-> [r \in DOMAIN heap |->
               IF \E i \in 1..Len(final) : final[i].ref = r
               THEN Stamped(heap[r],
                            final[CHOOSE i \in 1..Len(final) : final[i].ref = r].overall)
               ELSE heap[r]],
   out |-> [i \in 1..Len(final) |-> final[i].ref]]

\* final.map(({trace, score}) => ({...trace, score: score.overall})): the
\* objects returned are new objects of the heap
StampAll(heap, final) ==
  [heap |-> heap \o [i \in 1..Len(final) |->
                       Stamped(heap[final[i].ref], final[i].overall)],
   out |-> [i \in 1..Len(final) |-> Len(heap) + i]]

applyPolicy(heap, pool, policy, now) ==
  StampAll(heap,
           Truncate(SortByDecayedDesc(Retained(Scored(heap, pool, policy, now), policy)),
                    policy.maxTraces))

\* the pools applyPolicy is given: up to MaxPool traces, and the population of
\* sixty, fifty-five of which score 60 or more
SmallHeaps ==
  UNION {{[i \in 1..n |-> MakeTrace(kinds[i], i, ats[i])] :
            kinds \in [1..n -> TraceKinds], ats \in [1..n -> CompletedAts]} :
         n \in 0..MaxPool}
SixtyHeap ==
  [i \in 1..60 |-> IF i <= 25 THEN Medium(i, PolicyNow)
                   ELSE IF i <= 30 THEN Poor(i, PolicyNow)
                   ELSE Rich(i, PolicyNow)]

PolicyCalls ==
  {[fn |-> "applyPolicy", heap |-> h, pool |-> [i \in 1..Len(h) |-> i],
    policy |-> p, now |-> PolicyNow, out |-> None] :
     h \in SmallHeaps, p \in Policies}
  \cup {[fn |-> "applyPolicy", heap |-> SixtyHeap, pool |-> [i \in 1..60 |-> i],
         policy |-> AGGRESSIVE_POLICY, now |-> PolicyNow, out |-> None]}

\* the traces scoreTrace is given: the summary short, middling and long, no
\* tool up to more than the bonus counts, and step counts and latencies in
\* and out of their range (a clock that went back, more than 20 steps)
ScoreSummaryLens == {0, 50, 100, 200}
ScoreTools == {0, 1, 3, 6}
ScoreStepCounts == {-1, 0, 1, 8, 20, 25}
ScoreLatencies == {-5000, 0, 8000, 61000, 150000}
ScoreCalls ==
  {[fn |-> "scoreTrace",
    trace |-> [id |-> 1, summaryLen |-> l, tools |-> t, stepCount |-> n,
               totalLatencyMs |-> ms, completedAt |-> PolicyNow],
    out |-> None] :
     l \in ScoreSummaryLens, t \in ScoreTools, n \in ScoreStepCounts,
     ms \in ScoreLatencies}

\* ---------------------------------------------------------- similarity

MaxSimPool == 3
MaxTopK == 3

\* a text is the sequence of the pieces its split on whitespace and
\* punctuation gives
\* the stop words that occur in the texts below
STOP_WORDS == {"the", "is"}

\* toLowerCase() on the words of the texts below
Lower(word) == IF word = "AI" THEN "ai" ELSE word

\* tokenize(text): lower case, no token shorter than 2, no stop word
RECURSIVE tokenize(_)
tokenize(text) ==
  IF text = <<>> THEN <<>>
  ELSE LET token == Lower(Head(text)) IN
         (IF Len(token) >= 2 /\ token \notin STOP_WORDS THEN <<token>> ELSE <<>>)
           \o tokenize(Tail(text))

\* traceToText(trace): the query, the tool names and the summary, joined
traceToText(trace) ==
  trace.query
    \o (IF Len(trace.toolsUsed) > 0 THEN trace.toolsUsed ELSE <<>>)
    \o (IF trace.summary # <<>> THEN trace.summary ELSE <<>>)

TermsOf(tokens) == {tokens[i] : i \in 1..Len(tokens)}

\* computeTF before it is normalised: the count of a term in a token list.
\* The division by the token count scales every weight of a document alike
\* and so cancels in the cosine.
CountOf(tokens, term) == Cardinality({i \in 1..Len(tokens) : tokens[i] = term})

\* computeIDF: df(t), the number of documents of the corpus that hold the term
DocFreq(corpus, term) ==
  Cardinality({d \in 1..Len(corpus) : term \in TermsOf(corpus[d])})

\* computeIDF: idf = Math.log(N / (1 + df)); here its square, in hundredths.
\* It is exactly 0 when N = 1 + df.
IdfSq(N, df) ==
  LET d == 1 + df IN
    CASE N = d -> 0
      [] 2 * N = d \/ N = 2 * d -> 48
      [] 3 * N = 2 * d \/ 2 * N = 3 * d -> 16
      [] 4 * N = 3 * d \/ 3 * N = 4 * d -> 8
      [] 5 * N = 4 * d \/ 4 * N = 5 * d -> 5
      [] 6 * N = 5 * d \/ 5 * N = 6 * d -> 3
      [] 2 * N = 5 * d \/ 5 * N = 2 * d -> 84
      [] 3 * N = 5 * d \/ 5 * N = 3 * d -> 26

RECURSIVE SumOver(_, _)
SumOver(f, S) ==
  IF S = {} THEN 0
  ELSE LET x == CHOOSE y \in S : TRUE IN f[x] + SumOver(f, S \ {x})

\* cosineSimilarity: dotProduct, and normA / normB, over the TF-IDF weights
DotProduct(a, b, corpus) ==
  LET both == TermsOf(a) \cap TermsOf(b) IN
    SumOver([t \in both |-> CountOf(a, t) * CountOf(b, t)
                              * IdfSq(Len(corpus), DocFreq(corpus, t))], both)
NormSq(a, corpus) ==
  SumOver([t \in TermsOf(a) |-> CountOf(a, t) * CountOf(a, t)
                                  * IdfSq(Len(corpus), DocFreq(corpus, t))], TermsOf(a))

\* cosineSimilarity(a, b) = dotProduct / (sqrt(normA) * sqrt(normB)), and 0
\* when the denominator is 0.  A score is kept as the fraction num / den of
\* its square times normA, which is the same for every trace of one call:
\* scores compare as these fractions do.
cosineSimilarity(a, b, corpus) ==
  LET dot == DotProduct(a, b, corpus)
      normA == NormSq(a, corpus)
      normB == NormSq(b, corpus)
  IN IF normA = 0 \/ normB = 0 THEN [num |-> 0, den |-> 1]
     ELSE [num |-> dot * dot, den |-> normB]

ScoreGE(x, y) == x.num * y.den >= y.num * x.den
ScoreEq(x, y) == x.num * y.den = y.num * x.den
ScoreIsZero(x) == x.num = 0

\* an insertion that puts a trace before the traces of equal score
RECURSIVE InsertByScoreFirst(_, _)
InsertByScoreFirst(x, s) ==
  IF s = <<>> THEN <<x>>
  ELSE IF ScoreGE(Head(s).score, x.score) /\ ~ScoreEq(Head(s).score, x.score)
       THEN <<Head(s)>> \o InsertByScoreFirst(x, Tail(s))
       ELSE <<x>> \o s

\* scored.sort((a, b) => b.score - a.score): a stable sort
RECURSIVE InsertByScore(_, _)
InsertByScore(x, s) ==
  IF s = <<>> THEN <<x>>
  ELSE IF ScoreGE(Head(s).score, x.score)
       THEN <<Head(s)>> \o InsertByScore(x, Tail(s))
       ELSE <<x>> \o s

RECURSIVE SortByScoreDesc(_)
SortByScoreDesc(s) ==
  IF s = <<>> THEN <<>>
  ELSE InsertByScore(s[Len(s)], SortByScoreDesc(SubSeq(s, 1, Len(s) - 1)))

\* a slice that is one too long
SliceLoose(s, k) == SubSeq(s, 1, Min2(k + 1, Len(s)))

\* array.slice(0, k) for k >= 0
Slice(s, k) == SubSeq(s, 1, Min2(k, Len(s)))

\* a ranking that gives nothing back for a query without a token
findSimilarNothingUnranked(query, pool, topK) ==
  LET queryTokens == tokenize(query)
  IN IF pool = <<>> \/ queryTokens = <<>> THEN [out |-> <<>>, scores |-> <<>>]
     ELSE LET traceTokens == [i \in 1..Len(pool) |-> tokenize(traceToText(pool[i]))]
              corpus == <<queryTokens>> \o traceTokens
              scored == [i \in 1..Len(pool) |->
                           [at |-> i,
                            score |-> cosineSimilarity(queryTokens, traceTokens[i], corpus)]]
              top == Slice(SortByScoreDesc(scored), topK)
          IN [out |-> [i \in 1..Len(top) |-> top[i].at],
              scores |-> [i \in 1..Len(pool) |-> scored[i].score]]

\* findSimilarTraces(query, traces, topK): the positions in the pool of the
\* traces it returns, in the order it returns them, and the score it gave to
\* each trace of the pool (none when the query has no token)
findSimilarTraces(query, pool, topK) ==
  LET queryTokens == tokenize(query)
      all == [i \in 1..Len(pool) |-> i]
  IN IF pool = <<>> THEN [out |-> <<>>, scores |-> <<>>]
     ELSE IF queryTokens = <<>> THEN [out |-> Slice(all, topK), scores |-> <<>>]
     ELSE LET traceTokens == [i \in 1..Len(pool) |-> tokenize(traceToText(pool[i]))]
              corpus == <<queryTokens>> \o traceTokens
              scored == [i \in 1..Len(pool) |->
                           [at |-> i,
                            score |-> cosineSimilarity(queryTokens, traceTokens[i], corpus)]]
              top == Slice(SortByScoreDesc(scored), topK)
          IN [out |-> [i \in 1..Len(top) |-> top[i].at],
              scores |-> [i \in 1..Len(pool) |-> scored[i].score]]

\* sort((a, b) => b.startedAt - a.startedAt): a stable sort
RECURSIVE InsertByStartedAt(_, _)
InsertByStartedAt(x, s) ==
  IF s = <<>> THEN <<x>>
  ELSE IF Head(s).startedAt >= x.startedAt
       THEN <<Head(s)>> \o InsertByStartedAt(x, Tail(s))
       ELSE <<x>> \o s

RECURSIVE SortByStartedAtDesc(_)
SortByStartedAtDesc(s) ==
  IF s = <<>> THEN <<>>
  ELSE InsertByStartedAt(s[Len(s)], SortByStartedAtDesc(SubSeq(s, 1, Len(s) - 1)))

\* MemoryStore.getReasoningContext(query, sessionId, maxTraces): the
\* positions, in getBySession's list, of the traces its blocks are made from;
\* the query takes no part
getReasoningContext(query, sessionTraces_, maxTraces) ==
  LET listed == [i \in 1..Len(sessionTraces_) |->
                   [at |-> i, startedAt |-> sessionTraces_[i].startedAt]]
      relevant == Slice(SortByStartedAtDesc(listed), maxTraces)
  IN [i \in 1..Len(relevant) |-> relevant[i].at]

\* the texts: the document and the query of the scenario, an unrelated
\* document, a document that shares one term, and texts without a token
SimTexts ==
  [research |-> [query |-> <<"AI", "agent", "memory", "systems", "research">>,
                 toolsUsed |-> <<>>, summary |-> <<>>],
   pasta |-> [query |-> <<"cooking", "pasta">>, toolsUsed |-> <<>>, summary |-> <<>>],
   tools |-> [query |-> <<"the", "agent">>, toolsUsed |-> <<"search">>,
              summary |-> <<"agent", "is", "pasta">>],
   blank |-> [query |-> <<"the", "x">>, toolsUsed |-> <<>>, summary |-> <<>>]]
SimQueries ==
  {<<"ai", "agent", "memory">>, <<"cooking", "pasta">>, <<"pasta", "is">>, <<"the", "x">>}

\* the pools: up to MaxSimPool traces in the order they were stored, which
\* is the order they were started in
SimPools ==
  UNION {{[i \in 1..n |->
             [id |-> i, startedAt |-> i, query |-> SimTexts[kinds[i]].query,
              toolsUsed |-> SimTexts[kinds[i]].toolsUsed,
              summary |-> SimTexts[kinds[i]].summary]] :
            kinds \in [1..n -> DOMAIN SimTexts]} :
         n \in 0..MaxSimPool}

SimilarCalls ==
  {[fn |-> f, query |-> q, pool |-> pool, topK |-> k, out |-> None, scores |-> <<>>] :
     f \in {"findSimilarTraces", "getReasoningContext"},
     q \in SimQueries, pool \in SimPools, k \in 0..MaxTopK}

\* ------------------------------------------------- the numbers of the code
\* A JavaScript number is an IEEE 754 double.  The similarity code adds,
\* multiplies, divides and takes square roots, each rounded to the nearest
\* double, a tie going to the even mantissa.  A double that is not negative
\* is kept here as m * 2^e with 2^52 <= m < 2^53, and 0 as the empty m; m is
\* a natural number of any size, written as its limbs of 15 bits each, the
\* lowest first.  The values of this code stay far from the largest and the
\* smallest double.

Limb(a, i) == IF i <= Len(a) THEN a[i] ELSE 0

BigNorm(a) ==
  IF \A i \in 1..Len(a) : a[i] = 0 THEN <<>>
  ELSE SubSeq(a, 1, CHOOSE i \in 1..Len(a) :
                      a[i] # 0 /\ \A j \in (i + 1)..Len(a) : a[j] = 0)

RECURSIVE AddFrom(_, _, _, _, _)
AddFrom(a, b, i, carry, acc) ==
  IF i > Max2(Len(a), Len(b))
  THEN (IF carry > 0 THEN Append(acc, carry) ELSE acc)
  ELSE LET s == Limb(a, i) + Limb(b, i) + carry
       IN AddFrom(a, b, i + 1, s \div 32768, Append(acc, s % 32768))
BigAdd(a, b) == AddFrom(a, b, 1, 0, <<>>)

RECURSIVE SubFrom(_, _, _, _, _)
SubFrom(a, b, i, borrow, acc) ==
  IF i > Len(a) THEN BigNorm(acc)
  ELSE LET d == a[i] - Limb(b, i) - borrow
       IN SubFrom(a, b, i + 1, IF d < 0 THEN 1 ELSE 0,
                  Append(acc, IF d < 0 THEN d + 32768 ELSE d))
BigSub(a, b) == SubFrom(a, b, 1, 0, <<>>)

BigLE(a, b) ==
  IF Len(a) # Len(b) THEN Len(a) < Len(b)
  ELSE IF a = b THEN TRUE
  ELSE LET i == CHOOSE k \in 1..Len(a) :
                  a[k] # b[k] /\ \A j \in (k + 1)..Len(a) : a[j] = b[j]
       IN a[i] < b[i]

RECURSIVE MulSmallFrom(_, _, _, _, _)
MulSmallFrom(a, d, i, carry, acc) ==
  IF i > Len(a) THEN (IF carry > 0 THEN Append(acc, carry) ELSE acc)
  ELSE LET p == a[i] * d + carry
       IN MulSmallFrom(a, d, i + 1, p \div 32768, Append(acc, p % 32768))

Zeros(n) == [i \in 1..n |-> 0]

RECURSIVE MulFrom(_, _, _, _)
MulFrom(a, b, j, acc) ==
  IF j > Len(b) THEN acc
  ELSE MulFrom(a, b, j + 1,
               IF b[j] = 0 THEN acc
               ELSE BigAdd(acc, Zeros(j - 1) \o MulSmallFrom(a, b[j], 1, 0, <<>>)))
BigMul(a, b) == IF a = <<>> \/ b = <<>> THEN <<>> ELSE MulFrom(a, b, 1, <<>>)

BigPow2(k) == Zeros(k \div 15) \o <<2 ^ (k % 15)>>
BigShl(a, k) == BigMul(a, BigPow2(k))
BigShr(a, k) ==
  LET q == k \div 15
      r == k % 15
      b == SubSeq(a, q + 1, Len(a))
  IN BigNorm([i \in 1..Len(b) |->
                (b[i] \div (2 ^ r)) + (Limb(b, i + 1) % (2 ^ r)) * (2 ^ (15 - r))])
BitLen(a) ==
  IF a = <<>> THEN 0
  ELSE 15 * (Len(a) - 1)
         + (CHOOSE k \in 1..15 : 2 ^ (k - 1) <= a[Len(a)] /\ a[Len(a)] < 2 ^ k)
BigOdd(a) == a # <<>> /\ a[1] % 2 = 1

\* the largest q of at most 15 * limbs bits that fits(q): the bits are tried
\* from the highest down, and a bit stays set when q still fits with it
RECURSIVE BitsFrom(_, _, _, _)
BitsFrom(fits(_), q, i, j) ==
  LET cand == [q EXCEPT ![i] = @ + 2 ^ j] IN
    IF fits(BigNorm(cand))
    THEN (IF j = 0 THEN cand ELSE BitsFrom(fits, cand, i, j - 1))
    ELSE (IF j = 0 THEN q ELSE BitsFrom(fits, q, i, j - 1))
RECURSIVE LimbsFrom(_, _, _)
LimbsFrom(fits(_), q, i) ==
  IF i = 0 THEN BigNorm(q)
  ELSE LimbsFrom(fits, BitsFrom(fits, q, i, 14), i - 1)
Largest(fits(_), limbs) == LimbsFrom(fits, Zeros(limbs), limbs)

BigDivFloor(a, b) ==
  LET fits(q) == BigLE(BigMul(q, b), a)
  IN Largest(fits, (Max2(BitLen(a) - BitLen(b) + 1, 1) + 14) \div 15)
BigSqrtFloor(n) ==
  LET fits(s) == BigLE(BigMul(s, s), n)
  IN Largest(fits, ((BitLen(n) + 1) \div 2 + 14) \div 15)

FZero == [m |-> <<>>, e |-> 0]

\* the double nearest to n * 2^e, a tie going to the even mantissa
RoundDouble(n, e) ==
  LET L == BitLen(n) IN
    IF L <= 53 THEN [m |-> BigShl(n, 53 - L), e |-> e - (53 - L)]
    ELSE LET d == L - 53
             q == BigShr(n, d)
             rem == BigSub(n, BigShl(q, d))
             half == BigPow2(d - 1)
             up == \/ ~BigLE(rem, half)
                   \/ rem = half /\ BigOdd(q)
             q2 == IF up THEN BigAdd(q, <<1>>) ELSE q
         IN IF BitLen(q2) = 54 THEN [m |-> BigShr(q2, 1), e |-> e + d + 1]
            ELSE [m |-> q2, e |-> e + d]

\* a count or a length as a number
FromInt(k) == IF k = 0 THEN FZero ELSE RoundDouble(<<k>>, 0)

\* u * v
fmul(u, v) ==
  IF u.m = <<>> \/ v.m = <<>> THEN FZero
  ELSE RoundDouble(BigMul(u.m, v.m), u.e + v.e)

\* u + v
fadd(u, v) ==
  IF u.m = <<>> THEN v
  ELSE IF v.m = <<>> THEN u
  ELSE LET e == Min2(u.e, v.e)
       IN RoundDouble(BigAdd(BigShl(u.m, u.e - e), BigShl(v.m, v.e - e)), e)

\* u / v for v # 0: the quotient to 57 bits, and one more bit that says
\* whether anything is left over
fdiv(u, v) ==
  IF u.m = <<>> THEN FZero
  ELSE LET num == BigShl(u.m, 57)
           q == BigDivFloor(num, v.m)
           sticky == IF BigMul(q, v.m) = num THEN <<>> ELSE <<1>>
       IN RoundDouble(BigAdd(BigShl(q, 1), sticky), u.e - v.e - 58)

\* Math.sqrt(u), which IEEE 754 rounds as it rounds a quotient
fsqrt(u) ==
  IF u.m = <<>> THEN FZero
  ELSE LET odd == u.e % 2 = 1
           m2 == IF odd THEN BigShl(u.m, 1) ELSE u.m
           e2 == IF odd THEN u.e - 1 ELSE u.e
           n == BigShl(m2, 58)
           s == BigSqrtFloor(n)
           sticky == IF BigMul(s, s) = n THEN <<>> ELSE <<1>>
       IN RoundDouble(BigAdd(BigShl(s, 1), sticky), (e2 - 58) \div 2 - 1)

\* u <= v
FLE(u, v) ==
  IF u.m = <<>> THEN TRUE
  ELSE IF v.m = <<>> THEN FALSE
  ELSE u.e < v.e \/ (u.e = v.e /\ BigLE(u.m, v.m))

\* ------------------------------------------------ computeTextSimilarity
\* A Map is the sequence of its entries [term, value] in insertion order,
\* which is the order the code iterates it in.  In a corpus of two documents
\* N / (1 + df) is 2/2 for a term of one document and 2/3 for a term of both:
\* every idf, and with it every weight, is 0 or negative.  cosineSimilarity
\* multiplies a weight only by itself or by the other document's weight of
\* the same term, so no sign survives; a value is kept as its magnitude,
\* which rounds as the value does.

\* Math.log(v) for the quotients of a two-document corpus, as magnitude:
\* Math.log(1) = 0 and Math.log(2/3) = -0x1.9f323ecbf984dp-2 (-0.4054651081081645)
MathLog(v) ==
  CASE v = FromInt(1) -> FZero
    [] v = fdiv(FromInt(2), FromInt(3)) ->
         [m |-> <<6221, 22911, 19599, 207>>, e |-> -54]

ValueOf(map, term) ==
  LET at == {i \in 1..Len(map) : map[i].term = term}
  IN IF at = {} THEN None ELSE Some(map[CHOOSE i \in at : TRUE].value)

\* computeTF(tokens): count / total for each term, in order of first occurrence
computeTF(tokens) ==
  LET terms == Uniq(tokens)
      total == IF Len(tokens) = 0 THEN 1 ELSE Len(tokens)
  IN [i \in 1..Len(terms) |->
        [term |-> terms[i],
         value |-> fdiv(FromInt(CountOf(tokens, terms[i])), FromInt(total))]]

RECURSIVE Flatten(_)
Flatten(docs) == IF docs = <<>> THEN <<>> ELSE Head(docs) \o Flatten(Tail(docs))

\* computeIDF(corpus): Math.log(N / (1 + df)) for each term of the corpus
computeIDF(corpus) ==
  LET terms == Uniq(Flatten(corpus))
  IN [i \in 1..Len(terms) |->
        [term |-> terms[i],
         value |-> MathLog(fdiv(FromInt(Len(corpus)),
                                FromInt(1 + DocFreq(corpus, terms[i]))))]]

\* computeTFIDF(tf, idf): tfVal * (idf.get(term) ?? 0)
computeTFIDF(tf, idf) ==
  [i \in 1..Len(tf) |->
     LET idfVal == ValueOf(idf, tf[i].term)
     IN [term |-> tf[i].term,
         value |-> fmul(tf[i].value, IF idfVal = None THEN FZero ELSE idfVal[1])]]

\* the loop `normA += weight * weight` over a Map, from entry i on
RECURSIVE NormFrom(_, _, _)
NormFrom(map, i, acc) ==
  IF i > Len(map) THEN acc
  ELSE NormFrom(map, i + 1, fadd(acc, fmul(map[i].value, map[i].value)))
Norm(map) == NormFrom(map, 1, FZero)

\* the loop `dotProduct += weight * bWeight` over a, from entry i on
RECURSIVE DotFrom(_, _, _, _)
DotFrom(a, b, i, acc) ==
  IF i > Len(a) THEN acc
  ELSE LET bWeight == ValueOf(b, a[i].term)
       IN DotFrom(a, b, i + 1,
                  IF bWeight = None THEN acc
                  ELSE fadd(acc, fmul(a[i].value, bWeight[1])))

\* cosineSimilarity(a, b) on the numbers of the code
cosineSimilarityOfMaps(a, b) ==
  LET dotProduct == DotFrom(a, b, 1, FZero)
      denominator == fmul(fsqrt(Norm(a)), fsqrt(Norm(b)))
  IN IF denominator = FZero THEN FZero ELSE fdiv(dotProduct, denominator)

\* the TF-IDF vectors computeTextSimilarity builds for the texts a and b
TextVectors(a, b) ==
  LET tokensA == tokenize(a)
      tokensB == tokenize(b)
      idf == computeIDF(<<tokensA, tokensB>>)
  IN [a |-> computeTFIDF(computeTF(tokensA), idf),
      b |-> computeTFIDF(computeTF(tokensB), idf)]

computeTextSimilarity(a, b) ==
  IF tokenize(a) = <<>> \/ tokenize(b) = <<>> THEN FZero
  ELSE cosineSimilarityOfMaps(TextVectors(a, b).a, TextVectors(a, b).b)

\* the texts: the document of the scenario and its query, texts that repeat
\* a term, texts that share no term, and texts without a token
TextSamples ==
  {<<"AI", "agent", "memory", "systems", "research">>,
   <<"ai", "agent", "memory">>,
   <<"agent", "agent", "memory">>,
   <<"agent", "memory", "pasta", "agent">>,
   <<"cooking", "pasta">>,
   <<"the", "agent">>,
   <<"search", "systems", "research", "cooking", "pasta", "agent", "memory">>,
   <<"memory">>,
   <<"the", "x">>,
   <<>>}

TextCalls ==
  {[fn |-> "computeTextSimilarity", a |-> a, b |-> b, out |-> None] :
     a \in TextSamples, b \in TextSamples}

\* ------------------------------------------------------------ trace diff

MaxDiffLen == 2

\* a.metadata?.toolName: undefined when the step has no tool name
ToolNameOf(step) == step.toolName

\* a comparison that does not look at the tool name
SameTypeAndContent(a, b) == a.type = b.type /\ a.content = b.content

\* sameType && sameContent && sameTool
SameStep(a, b) ==
  /\ a.type = b.type
  /\ a.content = b.content
  /\ ToolNameOf(a) = ToolNameOf(b)

\* the row of an index where both traces have a step
BothRow(a, b, i) ==
  [status |-> IF SameStep(a, b) THEN "equal" ELSE "changed",
   stepA |-> a, stepB |-> b, index |-> i]

\* a row that calls a step of either trace alone removed
LoneRowAlwaysRemoved(steps, which, i) ==
  IF which = "A" THEN [status |-> "removed", stepA |-> steps[i + 1], index |-> i]
  ELSE [status |-> "removed", stepB |-> steps[i + 1], index |-> i]

\* the row of an index where one trace alone has a step: a step of A alone
\* was removed, a step of B alone was added
LoneRow(steps, which, i) ==
  IF which = "A" THEN [status |-> "removed", stepA |-> steps[i + 1], index |-> i]
  ELSE [status |-> "added", stepB |-> steps[i + 1], index |-> i]

\* the loop of computeDiff from index i on: traceA.steps[i] is undefined
\* from the length of the array on
RECURSIVE DiffFrom(_, _, _, _)
DiffFrom(stepsA, stepsB, i, rows) ==
  IF ~(i < Max2(Len(stepsA), Len(stepsB))) THEN rows
  ELSE LET hasA == i < Len(stepsA)
           hasB == i < Len(stepsB)
           pushed == IF hasA /\ hasB
                       THEN Append(rows, BothRow(stepsA[i + 1], stepsB[i + 1], i))
                     ELSE IF hasA /\ ~hasB THEN Append(rows, LoneRow(stepsA, "A", i))
                     ELSE IF ~hasA /\ hasB THEN Append(rows, LoneRow(stepsB, "B", i))
                     ELSE rows
       IN DiffFrom(stepsA, stepsB, i + 1, pushed)

computeDiff(traceA, traceB) == DiffFrom(traceA.steps, traceB.steps, 0, <<>>)

\* the steps of the traces that are compared: what a row compares (type,
\* content, tool name) and what it does not (the id)
DiffShapes ==
  {[type |-> "tool_call", content |-> "hi", toolName |-> Some("search")],
   [type |-> "tool_call", content |-> "hi", toolName |-> None],
   [type |-> "tool_call", content |-> "done", toolName |-> Some("search")],
   [type |-> "assistant_message", content |-> "hi", toolName |-> None],
   [type |-> "assistant_message", content |-> "done", toolName |-> None]}
DiffStep(shape, id) ==
  [id |-> id, type |-> shape.type, content |-> shape.content,
   toolName |-> shape.toolName]

\* traces of up to MaxDiffLen steps; the steps of the second trace have ids
\* of their own
DiffTracesOf(base) ==
  UNION {{[steps |-> [i \in 1..n |-> DiffStep(shapes[i], base + i)]] :
            shapes \in [1..n -> DiffShapes]} : n \in 0..MaxDiffLen}

\* the two runs of one query: the second has a tool result the first has not
ScenarioA ==
  [steps |-> <<[id |-> 1, type |-> "user_message", content |-> "hi", toolName |-> None],
               [id |-> 2, type |-> "tool_call", content |-> "search",
                toolName |-> Some("search")],
               [id |-> 3, type |-> "assistant_message", content |-> "done",
                toolName |-> None]>>]
ScenarioB ==
  [steps |-> <<[id |-> 11, type |-> "user_message", content |-> "hi", toolName |-> None],
               [id |-> 12, type |-> "tool_call", content |-> "search",
                toolName |-> Some("search")],
               [id |-> 13, type |-> "tool_result", content |-> "x", toolName |-> None],
               [id |-> 14, type |-> "assistant_message", content |-> "done",
                toolName |-> None]>>]

DiffCalls ==
  {[fn |-> "computeDiff", traceA |-> a, traceB |-> b, out |-> None, back |-> None] :
     a \in DiffTracesOf(0), b \in DiffTracesOf(10)}
  \cup {[fn |-> "computeDiff", traceA |-> ScenarioA, traceB |-> ScenarioB,
          out |-> None, back |-> None]}

\* -------------------------------------------------------- PluginManager

MaxPluginOps == 3

\* a plugin: its id, whether it defines the hook that is emitted (or
\* transformTrace, for transform), and whether that hook throws or rejects
PluginIds == {"a", "b", "c"}
Plugins == [id : PluginIds, defines : BOOLEAN, throws : BOOLEAN]

\* a PluginManager that has no plugin, and no emit or transform under way:
\* invoked are the plugins whose hook was called, given what transformTrace
\* was called with, logged the plugins console.error has named
Manager0 ==
  [fn |-> "plugins", plugins |-> <<>>, ops |-> 0, run |-> "idle", kind |-> "none",
   pos |-> 0, invoked |-> <<>>, given |-> <<>>, logged |-> <<>>,
   current |-> <<>>, result |-> None]

\* this.plugins.set(plugin.id, plugin): a Map keeps the place of a key it has
MapSetPlugin(plugins, plugin) ==
  IF \E i \in 1..Len(plugins) : plugins[i].id = plugin.id
  THEN [i \in 1..Len(plugins) |->
          IF plugins[i].id = plugin.id THEN plugin ELSE plugins[i]]
  ELSE Append(plugins, plugin)

\* this.plugins.delete(pluginId)
MapDeletePlugin(plugins, pluginId) ==
  LET other(q) == q.id # pluginId IN SelectSeq(plugins, other)

\* transformTrace of a plugin that returns: a new trace, made from the one
\* it was given
Transformed(trace, plugin) == Append(trace, plugin.id)

\* a call of the hook without try and catch: what the plugin throws ends the
\* loop and rejects the promise
HookUncaught(m, plugin) ==
  IF plugin.throws
  THEN [m EXCEPT !.run = "done", !.result = Some([rejected |-> plugin.id])]
  ELSE [m EXCEPT !.pos = @ + 1,
                 !.current = IF m.kind = "transform" THEN Transformed(@, plugin) ELSE @]

\* try { await fn(...) } catch (err) { console.error(...) }: what the plugin
\* throws is logged and the loop goes on; transform assigns current only
\* when the hook returned
HookCaught(m, plugin) ==
  IF plugin.throws
  THEN [m EXCEPT !.pos = @ + 1, !.logged = Append(@, plugin.id)]
  ELSE [m EXCEPT !.pos = @ + 1,
                 !.current = IF m.kind = "transform" THEN Transformed(@, plugin) ELSE @]

\* one turn of the for loop of emit or of transform
LoopTurn(m) ==
  LET plugin == m.plugins[m.pos] IN
    IF ~plugin.defines THEN [m EXCEPT !.pos = @ + 1]
    ELSE HookCaught([m EXCEPT !.invoked = Append(@, plugin.id),
                              !.given = Append(@, m.current)],
                    plugin)

\* no library call is under way
NoCall == [fn |-> "none"]

Init ==
  /\ RouteInit /\ backend = "memory" /\ CliInit /\ BuilderInit /\ ComposableInit
  /\ call = NoCall
InitKv ==
  /\ RouteInit /\ backend = "kv" /\ CliInit /\ BuilderInit /\ ComposableInit
  /\ call = NoCall

\* ---------------------------------------------- run_all over a given store

MaxTests == 3
MaxGateRuns == 1
\* what the judge answers for a test
GateScores == {65, 80, 90}

\* a store that holds n tests made from one stored trace before the run_all
\* comes (createdAt is on the clock of the requests, which starts at the
\* run_all), and the score the judge will give to each test
InitGate ==
  /\ \E n \in 0..MaxTests : \E trace \in SomeTraces :
       /\ traces = MapSet(EmptyMap, trace.id, trace)
       /\ sessionTraces = [x \in Sessions |->
                             IF x = trace.sessionId THEN <<trace.id>> ELSE <<>>]
       /\ tests = [id \in 1..n |-> NewTest(id, trace, id - n - 1)]
       /\ testIndex = [i \in 1..n |-> i]
       /\ nextTestId = n + 1
       /\ \E scores \in [1..n -> GateScores] :
            call = [fn |-> "run_all", scores |-> scores]
  /\ backend = "memory"
  /\ pc = [w \in Workers |-> "idle"]
  /\ loc = [w \in Workers |-> Loc0]
  /\ resp = [w \in Workers |-> Resp0]
  /\ nReq = 0
  /\ CliInit /\ BuilderInit /\ ComposableInit

\* the judge answers with the score drawn for the test at hand
JudgePlanned(w) ==
  /\ call.fn = "run_all"
  /\ pc[w] = "all_llm"
  /\ Judge(w, Some(call.scores[loc[w].tests[loc[w].i].id]))

GateNext ==
  \/ nReq < MaxGateRuns /\ GetAllMem(1)
  \/ JudgePlanned(1)
  \/ AddRunMem(1)
  \/ Respond(1)

\* one client sends run_all to a server whose store holds up to MaxTests tests
SpecGate == InitGate /\ [][GateNext]_vars

\* a caller applies a policy to a list of traces
ApplyPolicy ==
  /\ call.fn = "applyPolicy" /\ call.out = None
  /\ LET r == applyPolicy(call.heap, call.pool, call.policy, call.now) IN
       call' = [call EXCEPT !.heap = r.heap, !.out = Some(r.out)]
  /\ UNCHANGED <<routeVars, cli, builderVars, composableVars>>

InitPolicy ==
  /\ RouteInit /\ backend = "memory" /\ CliInit /\ BuilderInit /\ ComposableInit
  /\ call \in PolicyCalls

SpecPolicy == InitPolicy /\ [][ApplyPolicy]_vars

\* a caller scores a trace
ScoreTrace ==
  /\ call.fn = "scoreTrace" /\ call.out = None
  /\ call' = [call EXCEPT !.out = Some(TraceScore(call.trace))]
  /\ UNCHANGED <<routeVars, cli, builderVars, composableVars>>

InitScore ==
  /\ RouteInit /\ backend = "memory" /\ CliInit /\ BuilderInit /\ ComposableInit
  /\ call \in ScoreCalls

SpecScore == InitScore /\ [][ScoreTrace]_vars

\* a caller ranks a pool of traces against a query
FindSimilar ==
  /\ call.fn = "findSimilarTraces" /\ call.out = None
  /\ LET r == findSimilarTraces(call.query, call.pool, call.topK) IN
       call' = [call EXCEPT !.out = Some(r.out), !.scores = r.scores]
  /\ UNCHANGED <<routeVars, cli, builderVars, composableVars>>

\* a caller asks the store for the context of a query; the pool is what
\* getBySession returns and topK is maxTraces
GetReasoningContext ==
  /\ call.fn = "getReasoningContext" /\ call.out = None
  /\ call' = [call EXCEPT !.out = Some(getReasoningContext(call.query, call.pool, call.topK))]
  /\ UNCHANGED <<routeVars, cli, builderVars, composableVars>>

\* a caller compares two texts
ComputeTextSimilarity ==
  /\ call.fn = "computeTextSimilarity" /\ call.out = None
  /\ call' = [call EXCEPT !.out = Some(computeTextSimilarity(call.a, call.b))]
  /\ UNCHANGED <<routeVars, cli, builderVars, composableVars>>

InitSimilar ==
  /\ RouteInit /\ backend = "memory" /\ CliInit /\ BuilderInit /\ ComposableInit
  /\ call \in SimilarCalls \cup TextCalls

SimilarNext == FindSimilar \/ GetReasoningContext \/ ComputeTextSimilarity

SpecSimilar == InitSimilar /\ [][SimilarNext]_vars

\* the panel compares trace A with trace B
ComputeDiff ==
  /\ call.fn = "computeDiff" /\ call.out = None
  /\ call' = [call EXCEPT !.out = Some(computeDiff(call.traceA, call.traceB))]
  /\ UNCHANGED <<routeVars, cli, builderVars, composableVars>>

\* the panel compares them the other way round
ComputeDiffBack ==
  /\ call.fn = "computeDiff" /\ call.back = None
  /\ call' = [call EXCEPT !.back = Some(computeDiff(call.traceB, call.traceA))]
  /\ UNCHANGED <<routeVars, cli, builderVars, composableVars>>

InitDiff ==
  /\ RouteInit /\ backend = "memory" /\ CliInit /\ BuilderInit /\ ComposableInit
  /\ call \in DiffCalls

DiffNext == ComputeDiff \/ ComputeDiffBack

SpecDiff == InitDiff /\ [][DiffNext]_vars

\* register(plugin)
Register(plugin) ==
  /\ call.fn = "plugins" /\ call.run = "idle" /\ call.ops < MaxPluginOps
  /\ call' = [call EXCEPT !.plugins = MapSetPlugin(@, plugin), !.ops = @ + 1]
  /\ UNCHANGED <<routeVars, cli, builderVars, composableVars>>

\* unregister(pluginId)
Unregister(pluginId) ==
  /\ call.fn = "plugins" /\ call.run = "idle" /\ call.ops < MaxPluginOps
  /\ call' = [call EXCEPT !.plugins = MapDeletePlugin(@, pluginId), !.ops = @ + 1]
  /\ UNCHANGED <<routeVars, cli, builderVars, composableVars>>

\* emit(hook, ...args) or transform(trace) is called: the loop starts at the
\* first plugin
ManagerCall(kind) ==
  /\ call.fn = "plugins" /\ call.run = "idle"
  /\ call' = [call EXCEPT !.run = "loop", !.kind = kind, !.pos = 1]
  /\ UNCHANGED <<routeVars, cli, builderVars, composableVars>>

\* the loop takes the next plugin and awaits its hook
ManagerTurn ==
  /\ call.fn = "plugins" /\ call.run = "loop" /\ call.pos <= Len(call.plugins)
  /\ call' = LoopTurn(call)
  /\ UNCHANGED <<routeVars, cli, builderVars, composableVars>>

\* the loop is over: emit resolves, transform resolves with current
ManagerReturn ==
  /\ call.fn = "plugins" /\ call.run = "loop" /\ call.pos > Len(call.plugins)
  /\ call' = [call EXCEPT !.run = "done",
                           !.result = Some([resolved |->
                                              IF call.kind = "transform"
                                              THEN Some(call.current) ELSE None])]
  /\ UNCHANGED <<routeVars, cli, builderVars, composableVars>>

InitPlugins ==
  /\ RouteInit /\ backend = "memory" /\ CliInit /\ BuilderInit /\ ComposableInit
  /\ call = Manager0

PluginsNext ==
  \/ \E plugin \in Plugins : Register(plugin)
  \/ \E pluginId \in PluginIds : Unregister(pluginId)
  \/ \E kind \in {"emit", "transform"} : ManagerCall(kind)
  \/ ManagerTurn
  \/ ManagerReturn

\* one PluginManager, its plugins registered and unregistered before one
\* emit or transform
SpecPlugins == InitPlugins /\ [][PluginsNext]_vars

\* callers of the in-memory trace store: store and clear, in any order
StoreNext ==
  \/ \E t \in StoreTraces : StoreMem(1, t)
  \/ ClearMem(1)
  \/ Respond(1)

SpecStore == Init /\ [][StoreNext]_vars

\* callers of the KV trace store that store traces and do nothing else: no
\* clear, and no key outlives its TTL
KvStoreNext ==
  \/ \E w \in Workers, t \in SomeTraces : StoreKvSet(w, t)
  \/ \E w \in Workers : StoreKvGet(w)
  \/ \E w \in Workers : StoreKvPut(w)

SpecKvStore == InitKv /\ [][KvStoreNext]_vars

\* one TraceBuilder and its callers
SpecBuilder == Init /\ [][BuilderNext]_vars
\* one ComposableMemoryStore with two adapters
SpecComposable == Init /\ [][ComposableNext]_vars

\* the server with the in-memory stores (the default)
Spec == Init /\ [][Next]_vars
\* the server with the KV stores
SpecKv == InitKv /\ [][NextKv]_vars

\* ================================================================ claims

IsPrefix(s, t) == Len(s) <= Len(t) /\ SubSeq(t, 1, Len(s)) = s

\* C1: a run_all over a non-empty set of tests answers gate PASS if and only if
\* every run it produced has passed = true, and FAIL in every other case; it
\* reports one result per run, carrying that run's verdict.
C1_GateIffAllPassed ==
  \A w \in Workers :
    (pc[w] = "done" /\ loc[w].op = "run_all" /\ loc[w].tests # <<>>) =>
      /\ resp[w].gate \in {"PASS", "FAIL"}
      /\ Len(loc[w].runs) = Len(loc[w].tests)
      /\ Len(resp[w].results) = Len(loc[w].runs)
      /\ \A i \in 1..Len(loc[w].runs) : resp[w].results[i].passed = loc[w].runs[i].passed
      /\ resp[w].gate = "PASS" <=> \A i \in 1..Len(loc[w].runs) : loc[w].runs[i].passed

\* a run_all over two tests answered FAIL although one of its runs passed
C1_Witness ==
  \E w \in Workers :
    /\ pc[w] = "done" /\ loc[w].op = "run_all" /\ Len(loc[w].runs) = 2
    /\ loc[w].runs[1].passed /\ ~loc[w].runs[2].passed
    /\ resp[w].gate = "FAIL"

\* C2: run_all on a store that holds no test answers 'skip' (status 400),
\* which is neither PASS nor FAIL, reports no result and records no run on any
\* test; and 'skip' is answered only when getAll returned no test.
C2_SkipOnNoTests ==
  [][\A w \in Workers :
       (pc[w] = "idle" /\ pc'[w] # "idle" /\ loc'[w].op = "run_all") =>
         /\ NoTests => /\ pc'[w] = "done"
                       /\ resp'[w].gate = "skip"
                       /\ resp'[w].status = 400
                       /\ resp'[w].results = <<>>
                       /\ tests' = tests
         /\ (pc'[w] = "done" /\ resp'[w].gate = "skip") => (NoTests /\ tests' = tests)
         /\ (pc'[w] = "done") => resp'[w].gate \notin {"PASS", "FAIL"}]_vars

\* a run_all was answered 'skip'
C2_Witness ==
  \E w \in Workers :
    pc[w] = "done" /\ loc[w].op = "run_all" /\ resp[w].gate = "skip" /\ NoTests

\* C3: every run recorded on a test, and every run a handler built or returned,
\* has a score in 0..100, passed = (score >= minScore of its test) and
\* delta = score - minScore of its test.
RunOk(run, minScore) ==
  /\ run.score \in 0..100
  /\ run.passed = (run.score >= minScore)
  /\ run.delta = run.score - minScore

C3_RunVerdict ==
  /\ \A id \in DOMAIN tests : \A k \in 1..Len(tests[id].runs) :
       RunOk(tests[id].runs[k], tests[id].minScore)
  /\ \A w \in Workers :
       /\ loc[w].run # None => RunOk(loc[w].run[1], loc[w].tests[loc[w].i].minScore)
       /\ resp[w].run # None => RunOk(resp[w].run[1], loc[w].tests[1].minScore)

\* a test holds a passing run whose score is exactly its minScore, and a failing one
C3_Witness ==
  \E id \in DOMAIN tests : \E k, m \in 1..Len(tests[id].runs) :
    /\ tests[id].runs[k].score = tests[id].minScore /\ tests[id].runs[k].passed
    /\ ~tests[id].runs[m].passed /\ tests[id].runs[m].delta < 0

\* C4: a test's run history is append-only: a step changes the history of a
\* test only by adding one run at its end, and lastRunAt / lastRunPassed are
\* the timestamp / passed of the last run of the list.
LastRunOk(test) ==
  IF test.runs = <<>>
  THEN test.lastRunAt = None /\ test.lastRunPassed = None
  ELSE /\ test.lastRunAt = Some(test.runs[Len(test.runs)].timestamp)
       /\ test.lastRunPassed = Some(test.runs[Len(test.runs)].passed)

C4_AppendOnly ==
  [][\A id \in DOMAIN tests :
       id \in DOMAIN tests' =>
         /\ IsPrefix(tests[id].runs, tests'[id].runs)
         /\ Len(tests'[id].runs) <= Len(tests[id].runs) + 1
         /\ LastRunOk(tests'[id])]_vars

\* C5: a trace complete() has returned never changes: no later step alters its
\* step sequence or its fields, and its stepCount stays the number of its steps.
C5_CompletedImmutable ==
  [][\A i \in 1..Len(completed) :
       /\ completed'[i] = completed[i]
       /\ arrays'[completed[i].steps] = arrays[completed[i].steps]
       /\ completed'[i].stepCount = Len(arrays'[completed'[i].steps])]_vars

\* C6 (as stated): a stored trace stays retrievable unless a retention sweep
\* evicted it.  No operation of the stores is a retention sweep (applyPolicy
\* returns a new array and no handler calls it), so: no step removes a trace.
C6_OnlySweepRemoves ==
  [][\A id \in DOMAIN traces : id \in DOMAIN traces']_vars

\* a DELETE /api/traces is being handled (MemoryStore.clear, KVMemoryStore.clear)
ClearStep ==
  \E w \in Workers :
    /\ pc[w] = "idle" /\ pc'[w] # "idle" /\ loc'[w].op = "clear"
    /\ traces' = EmptyMap

\* the TTL of one "trace:<id>" key lapses
ExpiryStep ==
  /\ backend = "kv"
  /\ \E id \in DOMAIN traces : traces' = MapDelete(traces, id)
  /\ UNCHANGED <<sessionTraces, tests, testIndex, pc, loc, resp>>

\* C6 (amended): the operation that removes traces is clear() (DELETE
\* /api/traces), which removes them all; on the KV backend a trace also goes
\* when its TTL lapses.  A stored trace stays retrievable across every other step.
C6_OnlyClearRemoves ==
  [][\A id \in DOMAIN traces : id \notin DOMAIN traces' => (ClearStep \/ ExpiryStep)]_vars

\* a clear has been answered and the trace a test was made from is gone
C6_Witness ==
  /\ \E w \in Workers : pc[w] = "done" /\ loc[w].op = "clear"
  /\ \E id \in DOMAIN tests : tests[id].sourceTraceId \notin DOMAIN traces
  /\ traces = EmptyMap

\* C7: a create naming a trace id that is not stored, a run naming a test id
\* that is not stored and a trace lookup by an unknown id are each answered 404
\* at once and leave both stores as they were: no trace, test or run is made.
C7_NotFoundNoEffect ==
  [][\A w \in Workers :
       (pc[w] = "idle" /\ pc'[w] # "idle") =>
         LET l == loc'[w]
             unknown == \/ l.op \in {"get", "create"} /\ l.traceId \notin DOMAIN traces
                        \/ l.op = "run" /\ l.testId \notin DOMAIN tests
         IN unknown => /\ pc'[w] = "done"
                       /\ resp'[w].status = 404
                       /\ resp'[w].run = None
                       /\ UNCHANGED <<traces, sessionTraces, tests, testIndex, nextTestId>>]_vars

\* a create was answered 404 while the store held another trace, and a run was
\* answered 404 while the store held another test
C7_Witness ==
  \E w, v \in Workers :
    /\ pc[w] = "done" /\ loc[w].op = "create" /\ resp[w].status = 404
    /\ DOMAIN traces # {}
    /\ pc[v] = "done" /\ loc[v].op = "run" /\ resp[v].status = 404
    /\ DOMAIN tests # {}

\* C8: a step that removes traces leaves every regression test as it was (its
\* query, threshold and run history) and the test index too; and a test can
\* still be run whatever has become of its source trace: a run request naming
\* it is accepted, and the run is appended to it.
C8_TraceRemovalKeepsTests ==
  [][/\ (\E id \in DOMAIN traces : id \notin DOMAIN traces') =>
          (tests' = tests /\ testIndex' = testIndex)
     /\ \A w \in Workers :
          /\ (pc[w] = "idle" /\ pc'[w] # "idle" /\ loc'[w].op = "run"
                /\ loc'[w].testId \in DOMAIN tests) => pc'[w] = "run_llm"
          /\ (pc[w] = "run_add" /\ pc'[w] = "done" /\ backend = "memory"
                /\ loc[w].testId \in DOMAIN tests) =>
               tests'[loc[w].testId].runs =
                 Append(tests[loc[w].testId].runs, loc[w].run[1])]_vars

\* a test whose source trace has been cleared holds a run that was judged after
\* the clear: two requests came after the test was created, the clear and the run
C8_Witness ==
  \E id \in DOMAIN tests :
    /\ tests[id].sourceTraceId \notin DOMAIN traces
    /\ \E k \in 1..Len(tests[id].runs) :
         tests[id].runs[k].timestamp = tests[id].createdAt + 2
    /\ nReq = tests[id].createdAt + 2

\* C9: a failing adapter never blocks or fails the primary path: store(trace)
\* has written the base store before an adapter is called and returns with the
\* trace retrievable whatever becomes of the adapters' store calls; and
\* getReasoningContext returns once every adapter's search has come to its
\* outcome, be that a result, a throw or never returning.
C9_StoreNeverBlocked ==
  /\ \A k \in DOMAIN cPush : cCalls[k[1]].trace \in cBase
  /\ \A c \in 1..Len(cCalls) : cCalls[c].pc = "returned" => cCalls[c].trace \in cBase
  /\ \A c \in 1..Len(cCalls) : cCalls[c].pc = "fanout" => ENABLED CStoreFanOut(c)

C9_ContextNeverBlocked ==
  (ctxPc = "searching" /\ \A a \in Adapters : ctxSearch[a] # "pending") => ENABLED CtxReturn

C9_AdapterNeverBlocks == C9_StoreNeverBlocked /\ C9_ContextNeverBlocked

\* C10 (as stated): the CLI exits 0 when the gate is PASS and 1 when the gate
\* is FAIL or the run is skipped for want of tests.
C10_ExitCodes ==
  cli.pc = "exited" =>
    /\ cli.gate = "PASS" => cli.exit = Some(0)
    /\ cli.gate \in {"FAIL", "skip"} => cli.exit = Some(1)

\* C10 (amended): the CLI exits 0 when the gate is PASS and when the run is
\* skipped for want of tests, and 1 when the gate is FAIL or the request fails.
C10_ExitCodesSkipIsZero ==
  cli.pc = "exited" =>
    /\ cli.gate \in {"PASS", "skip"} => cli.exit = Some(0)
    /\ cli.gate \notin {"PASS", "skip"} => cli.exit = Some(1)

\* the CLI has exited on a skipped run
C10_Witness == cli.pc = "exited" /\ cli.gate = "skip" /\ cli.exit = Some(0)

Permuted(results, perm) == [i \in 1..Len(results) |-> results[perm[i]]]

\* C12: the gate and the summary run_all answers depend only on the outcome of
\* each test (its score against its minScore): the gate is PASS iff every test
\* scored at least its minScore, the summary counts those tests, and computing
\* either over the results in any other order gives the same.
C12_OrderIndependent ==
  \A w \in Workers :
    (pc[w] = "done" /\ loc[w].op = "run_all" /\ call.fn = "run_all"
       /\ resp[w].kind = "gate") =>
      LET results == resp[w].results
          passing == {id \in DOMAIN tests : call.scores[id] >= tests[id].minScore}
      IN /\ resp[w].gate = (IF passing = DOMAIN tests THEN "PASS" ELSE "FAIL")
         /\ resp[w].summary = ToString(Cardinality(passing)) \o "/"
                                \o ToString(Cardinality(DOMAIN tests)) \o " passed"
         /\ \A perm \in Permutations(1..Len(results)) :
              /\ Gate(Permuted(results, perm)) = resp[w].gate
              /\ Summary(Permuted(results, perm)) = resp[w].summary

\* a run_all over three tests of which the one that ran first failed and the
\* one that ran last passed
C12_Witness ==
  \E w \in Workers :
    /\ pc[w] = "done" /\ loc[w].op = "run_all" /\ Len(resp[w].results) = 3
    /\ ~resp[w].results[1].passed /\ resp[w].results[3].passed
    /\ resp[w].gate = "FAIL"

\* C13: run_all over n tests returns exactly one result per test, each with
\* passed = (score >= minScore of that test), and the summary 'k/n passed'
\* where k is the number of results that passed; with minScore 70 and the
\* scores 80, 65, 90 the results are passed, failed, passed, the gate is FAIL
\* and the summary is '2/3 passed'.
C13_OneResultPerTest ==
  \A w \in Workers :
    (pc[w] = "done" /\ loc[w].op = "run_all" /\ call.fn = "run_all"
       /\ resp[w].kind = "gate") =>
      LET results == resp[w].results
          n == Cardinality(DOMAIN tests)
          k == Cardinality({i \in 1..Len(results) : results[i].passed})
          of(id) == CHOOSE i \in 1..Len(results) : results[i].testId = id
      IN /\ Len(results) = n
         /\ \A id \in DOMAIN tests :
              Cardinality({i \in 1..Len(results) : results[i].testId = id}) = 1
         /\ \A i \in 1..Len(results) :
              /\ results[i].score = call.scores[results[i].testId]
              /\ results[i].passed = (results[i].score >= tests[results[i].testId].minScore)
         /\ resp[w].summary = ToString(k) \o "/" \o ToString(n) \o " passed"
         /\ (call.scores = <<80, 65, 90>> /\ \A id \in DOMAIN tests : tests[id].minScore = 70) =>
              /\ results[of(1)].passed /\ ~results[of(2)].passed /\ results[of(3)].passed
              /\ resp[w].gate = "FAIL"
              /\ resp[w].summary = "2/3 passed"

\* the run_all of the scenario has been answered
C13_Witness ==
  \E w \in Workers :
    /\ pc[w] = "done" /\ loc[w].op = "run_all"
    /\ call.fn = "run_all" /\ call.scores = <<80, 65, 90>>
    /\ resp[w].summary = "2/3 passed"

\* the call of applyPolicy has returned
PolicyReturned == call.fn = "applyPolicy" /\ call.out # None

\* the traces applyPolicy returned, and their decayed scores under the policy
Returned == [i \in 1..Len(call.out[1]) |-> call.heap[call.out[1][i]]]
DecayedOf(trace) ==
  clamp(60 * scoreTrace(trace) - (call.now - trace.completedAt) * call.policy.decay, 60)

\* C15: applyPolicy returns at most policy.maxTraces traces, each a trace of
\* the input whose undecayed overall score is at least policy.minScore (and
\* the score stamped on it is that overall score).
C15_BudgetAndMinScore ==
  PolicyReturned =>
    /\ Len(Returned) <= call.policy.maxTraces
    /\ \A i \in 1..Len(Returned) :
         /\ scoreTrace(Returned[i]) >= call.policy.minScore
         /\ Returned[i].score = scoreTrace(Returned[i])
         /\ \E j \in 1..Len(call.pool) :
              Stamped(call.heap[call.pool[j]], Returned[i].score) = Returned[i]

\* a pool of three traces that all qualify under a policy whose budget is two
C15_Witness ==
  /\ PolicyReturned /\ call.policy.maxTraces = 2 /\ Len(call.pool) = 3
  /\ \A j \in 1..3 : scoreTrace(call.heap[call.pool[j]]) >= call.policy.minScore
  /\ Len(Returned) = 2

\* C16 (as stated): under the Aggressive policy, when m traces of the input
\* have an overall score of 60 or more, applyPolicy returns exactly
\* min(m, 50) traces.
C16_MinOfScoringAndBudget ==
  (PolicyReturned /\ call.policy = AGGRESSIVE_POLICY) =>
    LET m == Cardinality({j \in 1..Len(call.pool) :
                            scoreTrace(call.heap[call.pool[j]]) >= 60})
    IN Len(Returned) = Min2(m, 50)

\* C16 (amended): under the Aggressive policy applyPolicy returns exactly
\* min(m, 50) traces, where m counts the traces whose overall score is 60 or
\* more and whose score less 10 points per hour of age is still 60 or more;
\* they are in the order of their decayed scores, highest first, and no trace
\* that qualifies and was left out has a higher decayed score than one that
\* was returned.  Sixty fresh traces, 55 of them scoring 60 or more, give 50.
C16_MinOfRetainedAndBudget ==
  (PolicyReturned /\ call.policy = AGGRESSIVE_POLICY) =>
    LET qualifies(t) == /\ scoreTrace(t) >= 60
                        /\ 60 * scoreTrace(t) - (call.now - t.completedAt) * 10 >= 60 * 60
        kept == {j \in 1..Len(call.pool) : qualifies(call.heap[call.pool[j]])}
        back == {Returned[i].id : i \in 1..Len(Returned)}
    IN /\ Len(Returned) = Min2(Cardinality(kept), 50)
       /\ Cardinality(back) = Len(Returned)
       /\ \A i \in 1..Len(Returned) : \E j \in kept :
            call.heap[call.pool[j]].id = Returned[i].id
       /\ \A i \in 1..(Len(Returned) - 1) :
            DecayedOf(Returned[i]) >= DecayedOf(Returned[i + 1])
       /\ \A j \in kept : call.heap[call.pool[j]].id \notin back =>
            \A i \in 1..Len(Returned) :
              DecayedOf(Returned[i]) >= DecayedOf(call.heap[call.pool[j]])
       /\ (Len(call.pool) = 60 /\ Cardinality(kept) = 55) => Len(Returned) = 50

\* the population of sixty has been swept: fifty traces came back, the thirty
\* best and twenty of the others
C16_Witness ==
  /\ PolicyReturned /\ call.policy = AGGRESSIVE_POLICY /\ Len(call.pool) = 60
  /\ Cardinality({j \in 1..60 : scoreTrace(call.heap[call.pool[j]]) >= 60}) = 55
  /\ Len(Returned) = 50
  /\ scoreTrace(Returned[30]) > scoreTrace(Returned[31])

\* C17: applyPolicy returns a new collection of new objects and leaves its
\* input alone: the list it was given holds the same traces in the same
\* order, and no trace of it has a field added or changed.
C17_InputNotMutated ==
  [][(call.fn = "applyPolicy" /\ call.out = None /\ call'.out # None) =>
       /\ call'.pool = call.pool
       /\ \A r \in DOMAIN call.heap : call'.heap[r] = call.heap[r]
       /\ \A i \in 1..Len(call'.out[1]) : call'.out[1][i] \notin DOMAIN call.heap
       /\ \A i \in 1..Len(call.pool) : "score" \notin DOMAIN call'.heap[call.pool[i]]]_vars

\* applyPolicy returned two traces in another order than the input had them
C17_Witness ==
  /\ PolicyReturned /\ Len(Returned) >= 2
  /\ Returned[1].id > Returned[2].id
  /\ \A i \in 1..Len(call.pool) : "score" \notin DOMAIN call.heap[call.pool[i]]

\* a call of findSimilarTraces, or of getReasoningContext, has returned
SimilarReturned == call.fn = "findSimilarTraces" /\ call.out # None
ContextReturned == call.fn = "getReasoningContext" /\ call.out # None

\* C14: the traces getReasoningContext builds its blocks from are the traces
\* findSimilar selects for the query among the session's traces: the top
\* maxTraces by similarity to the query, at most maxTraces of them.
C14_ContextFromFindSimilar ==
  ContextReturned =>
    /\ Len(call.out[1]) <= call.topK
    /\ call.out[1] = findSimilarTraces(call.query, call.pool, call.topK).out

\* C18: findSimilar returns at most topK traces, each of them a trace of the
\* pool, and none of them twice.
C18_AtMostTopKOfPool ==
  SimilarReturned =>
    LET out == call.out[1] IN
      /\ Len(out) <= call.topK
      /\ Len(out) = Min2(call.topK, Len(call.pool))
      /\ \A i \in 1..Len(out) : out[i] \in 1..Len(call.pool)
      /\ \A i, j \in 1..Len(out) : i # j => out[i] # out[j]

\* a pool of three traces ranked for topK = 2: two came back, not in pool order
C18_Witness ==
  /\ SimilarReturned /\ Len(call.pool) = 3 /\ call.topK = 2
  /\ Len(call.out[1]) = 2 /\ call.out[1][1] > call.out[1][2]

\* a trace of the pool shares a term with the query, after tokenizing
SharesTerm(i) ==
  TermsOf(tokenize(traceToText(call.pool[i]))) \cap TermsOf(tokenize(call.query)) # {}
Place(i) == CHOOSE k \in 1..Len(call.out[1]) : call.out[1][k] = i

\* C19: when the pool holds a trace that shares a term with the query and a
\* trace that shares none, findSimilar gives the first a similarity above 0
\* and the second a similarity of 0, and ranks the first above the second,
\* wherever they stand in the pool.
C19_SharedTermsRankAbove ==
  (SimilarReturned /\ call.topK >= Len(call.pool) /\ tokenize(call.query) # <<>>) =>
    \A i, j \in 1..Len(call.pool) :
      (SharesTerm(i) /\ ~SharesTerm(j)) =>
        /\ ~ScoreIsZero(call.scores[i])
        /\ ScoreIsZero(call.scores[j])
        /\ Place(i) < Place(j)

\* C20: findSimilar's result is in the order of the similarity scores,
\* highest first, traces of equal score in the order the pool has them, and it
\* is the first topK of the pool so ordered: a trace left out neither scores
\* higher than one returned nor ties with one returned that stands after it
\* in the pool.  A query without a token scores nothing and gives the first
\* topK of the pool.
C20_SortedStableTruncated ==
  SimilarReturned =>
    LET out == call.out[1]
        sc(i) == call.scores[i]
        before(i, j) == \/ ~ScoreGE(sc(j), sc(i))
                        \/ ScoreEq(sc(i), sc(j)) /\ i < j
    IN IF tokenize(call.query) = <<>>
       THEN out = [i \in 1..Len(out) |-> i]
       ELSE /\ \A a, b \in 1..Len(out) : a < b => before(out[a], out[b])
            /\ \A i \in 1..Len(call.pool) :
                 (\A a \in 1..Len(out) : out[a] # i) =>
                   \A a \in 1..Len(out) : before(out[a], i)

\* three traces, two of the same text and score around one that scores
\* otherwise: the two come back in pool order, and topK = 2 cuts a trace
C20_Witness ==
  /\ SimilarReturned /\ Len(call.pool) = 3 /\ call.topK = 2
  /\ tokenize(call.query) # <<>>
  /\ ScoreEq(call.scores[1], call.scores[3]) /\ ~ScoreIsZero(call.scores[1])
  /\ ~ScoreGE(call.scores[2], call.scores[1])
  /\ call.out[1] = <<1, 3>>

\* C21: when the query has no token or the pool is empty, what findSimilar
\* returns is a list and not an error: the first topK traces of the pool in
\* the order of the pool, which is nothing for an empty pool.
C21_UnrankedWhenNothingToRank ==
  (SimilarReturned /\ (tokenize(call.query) = <<>> \/ call.pool = <<>>)) =>
    /\ call.out[1] = [i \in 1..Min2(call.topK, Len(call.pool)) |-> i]
    /\ call.pool = <<>> => call.out[1] = <<>>

\* a query of a stop word and a one-letter word over three traces, topK = 2:
\* the first two traces of the pool came back
C21_Witness ==
  /\ SimilarReturned /\ call.query = <<"the", "x">> /\ Len(call.pool) = 3
  /\ call.topK = 2 /\ call.out[1] = <<1, 2>>

\* a diff of trace A with trace B has returned
DiffReturned == call.fn = "computeDiff" /\ call.out # None
StepsA == call.traceA.steps
StepsB == call.traceB.steps

\* C24: diff(A, B) has exactly max(len(A), len(B)) rows and row i carries
\* the index i; the row is equal when both traces have a step at i with the
\* same type, content and tool name, changed when both have a step there and
\* one of the three differs, removed when A alone has a step there and added
\* when B alone has one; a row carries the steps it speaks of.
C24_RowPerIndex ==
  DiffReturned =>
    LET rows == call.out[1] IN
      /\ Len(rows) = Max2(Len(StepsA), Len(StepsB))
      /\ \A k \in 1..Len(rows) :
           LET i == k - 1
               inA == k <= Len(StepsA)
               inB == k <= Len(StepsB)
               same == /\ StepsA[k].type = StepsB[k].type
                       /\ StepsA[k].content = StepsB[k].content
                       /\ StepsA[k].toolName = StepsB[k].toolName
           IN /\ rows[k].index = i
              /\ rows[k].status = "equal" <=> (inA /\ inB /\ same)
              /\ rows[k].status = "changed" <=> (inA /\ inB /\ ~same)
              /\ rows[k].status = "removed" <=> (inA /\ ~inB)
              /\ rows[k].status = "added" <=> (~inA /\ inB)
              /\ inA <=> ("stepA" \in DOMAIN rows[k])
              /\ inB <=> ("stepB" \in DOMAIN rows[k])
              /\ inA => rows[k].stepA = StepsA[k]
              /\ inB => rows[k].stepB = StepsB[k]

\* the two runs of the scenario: equal, equal, changed (an assistant message
\* against a tool result), added (the assistant message of B)
C24_Witness ==
  /\ DiffReturned /\ call.traceA = ScenarioA /\ call.traceB = ScenarioB
  /\ [k \in 1..4 |-> call.out[1][k].status] = <<"equal", "equal", "changed", "added">>
  /\ call.out[1][3].stepA.type = "assistant_message"
  /\ call.out[1][3].stepB.type = "tool_result"
  /\ call.out[1][4].stepB.type = "assistant_message"

\* a row with added and removed exchanged and stepA and stepB exchanged
FlipField(f) ==
  CASE f = "stepA" -> "stepB" [] f = "stepB" -> "stepA" [] OTHER -> f
FlipStatus(st) ==
  CASE st = "added" -> "removed" [] st = "removed" -> "added" [] OTHER -> st
SwapRow(r) ==
  [f \in {FlipField(g) : g \in DOMAIN r} |->
     IF f = "status" THEN FlipStatus(r.status) ELSE r[FlipField(f)]]

\* C25: diff(B, A) is diff(A, B) with added and removed exchanged and stepA
\* and stepB exchanged in every row; equal and changed, and the indices, stay.
C25_ReverseSwaps ==
  (DiffReturned /\ call.back # None) =>
    LET rows == call.out[1]
        back == call.back[1]
    IN /\ Len(back) = Len(rows)
       /\ \A k \in 1..Len(rows) :
            /\ back[k] = SwapRow(rows[k])
            /\ back[k].index = rows[k].index
            /\ rows[k].status \in {"equal", "changed"} => back[k].status = rows[k].status

\* both diffs of the scenario were made: the row that was added one way is
\* removed the other way, the changed row is changed both ways
C25_Witness ==
  /\ DiffReturned /\ call.back # None
  /\ call.traceA = ScenarioA /\ call.traceB = ScenarioB
  /\ call.out[1][4].status = "added" /\ call.back[1][4].status = "removed"
  /\ call.out[1][3].status = "changed" /\ call.back[1][3].status = "changed"
  /\ call.back[1][4].stepA = call.out[1][4].stepB

\* C26: scoreTrace returns for every trace, and quality, usefulness,
\* efficiency and overall are each within 0..100, also for a trace whose
\* totalLatencyMs is negative or whose stepCount is above 20 or negative.
C26_ScoresWithinRange ==
  (call.fn = "scoreTrace" /\ call.out # None) =>
    \A f \in {"quality", "usefulness", "efficiency", "overall"} :
      call.out[1][f] \in 0..100

\* a trace of 25 steps whose latency is negative was scored: full marks for
\* efficiency, and the steps count as 20
C26_Witness ==
  /\ call.fn = "scoreTrace" /\ call.out # None
  /\ call.trace.stepCount = 25 /\ call.trace.totalLatencyMs < 0
  /\ call.trace.tools = 6 /\ call.trace.summaryLen = 200
  /\ call.out[1].efficiency = 100 /\ call.out[1].usefulness = 100

\* the registered plugins that define the hook, in the order of registration
Defining == LET defines(q) == q.defines IN SelectSeq(call.plugins, defines)
ManagerDone(kind) == call.fn = "plugins" /\ call.run = "done" /\ call.kind = kind

\* C27: emit calls the hook of every registered plugin that defines it, in
\* the order of registration, also after a plugin has thrown, and resolves:
\* no exception of a plugin comes out of it.  transform calls every plugin
\* that defines transformTrace, in that order; a plugin is given what the
\* plugin before it returned, or what that plugin was given if it threw; and
\* transform resolves with what the last one returned or was given.
C27_PluginFailureIsolated ==
  /\ ManagerDone("emit") =>
       /\ call.invoked = [k \in 1..Len(Defining) |-> Defining[k].id]
       /\ call.result = Some([resolved |-> None])
  /\ ManagerDone("transform") =>
       LET after(k) == IF Defining[k].throws THEN call.given[k]
                       ELSE Transformed(call.given[k], Defining[k])
       IN /\ call.invoked = [k \in 1..Len(Defining) |-> Defining[k].id]
          /\ Len(call.given) = Len(Defining)
          /\ \A k \in 1..Len(Defining) :
               call.given[k] = IF k = 1 THEN <<>> ELSE after(k - 1)
          /\ call.result =
               Some([resolved |->
                       Some(IF Defining = <<>> THEN <<>> ELSE after(Len(Defining)))])

\* transform over three plugins, the second of which threw: the third was
\* given what the first returned, and its output is the result
C27_Witness ==
  /\ ManagerDone("transform") /\ Len(call.plugins) = 3
  /\ \A k \in 1..3 : call.plugins[k].defines
  /\ ~call.plugins[1].throws /\ call.plugins[2].throws /\ ~call.plugins[3].throws
  /\ call.logged = <<call.plugins[2].id>>
  /\ call.given[3] = <<call.plugins[1].id>>
  /\ call.result = Some([resolved |-> Some(<<call.plugins[1].id, call.plugins[3].id>>)])

\* C28: after any stores and clears on the in-memory trace store,
\* getBySession(s) holds each stored trace whose sessionId is s exactly once
\* and no trace of another session, and getSize is the number of distinct
\* trace ids stored.
C28_SessionListingExact ==
  /\ \A s \in Sessions :
       LET listed == getBySession(s) IN
         /\ \A id \in DOMAIN traces :
              traces[id].sessionId = s =>
                Cardinality({i \in 1..Len(listed) : listed[i].id = id}) = 1
         /\ \A i \in 1..Len(listed) : listed[i].sessionId = s
  /\ getSize = Cardinality(UNION {{sessionTraces[s][i] : i \in 1..Len(sessionTraces[s])} :
                                     s \in Sessions})

\* C29: when the store() calls on the KV store have completed, every trace
\* they stored is returned by getBySession for its session, also when two
\* calls for different traces of one session ran at the same time.
C29_ConcurrentStoresBothListed ==
  (backend = "kv" /\ \A w \in Workers : pc[w] = "idle") =>
    \A id \in DOMAIN traces :
      \E i \in 1..Len(kvGetBySession(traces[id].sessionId)) :
        kvGetBySession(traces[id].sessionId)[i].id = id

\* C30: a run that action run or action run_all reports for a test has been
\* appended to the history the store keeps for that test: when addRun has
\* resolved and the handler goes on to report the run, the test is in the
\* store and the run is in its runs, also when the test was deleted after
\* the handler had read it.
C30_ReportedRunIsRecorded ==
  [][\A w \in Workers :
       (pc[w] \in {"run_add", "all_add"} /\ pc'[w] \notin {"run_add", "all_add"}) =>
         LET id == loc[w].tests[loc[w].i].id IN
           /\ id \in DOMAIN tests'
           /\ \E k \in 1..Len(tests'[id].runs) : tests'[id].runs[k] = loc[w].run[1]]_vars

\* the call of computeTextSimilarity has returned and both texts had a token,
\* so that cosineSimilarity was called
CosineReturned ==
  /\ call.fn = "computeTextSimilarity" /\ call.out # None
  /\ tokenize(call.a) # <<>> /\ tokenize(call.b) # <<>>

\* C23: the cosine similarity of two TF-IDF vectors built over one corpus is
\* at least 0 and at most 1, and it is 0 when either vector has zero norm
C23_CosineWithinUnitRange ==
  CosineReturned =>
    LET vectors == TextVectors(call.a, call.b)
        out == call.out[1]
    IN /\ FLE(FZero, out) /\ FLE(out, FromInt(1))
       /\ (Norm(vectors.a) = FZero \/ Norm(vectors.b) = FZero) => out = FZero

\* the corpus findSimilarTraces builds for the call: the query, then the traces
CorpusOfCall ==
  <<tokenize(call.query)>>
    \o [i \in 1..Len(call.pool) |-> tokenize(traceToText(call.pool[i]))]

\* a score of findSimilarTraces, kept as the fraction of its square times
\* normA, is 1.0
ScoreIsOne(score) ==
  LET normA == NormSq(tokenize(call.query), CorpusOfCall)
  IN normA # 0 /\ score.num = score.den * normA

\* C22: a query and a document of identical text with at least one term have
\* similarity 1.0, in computeTextSimilarity and in the scores of findSimilar
C22_IdenticalTextScoresOne ==
  /\ (CosineReturned /\ call.a = call.b) => call.out[1] = FromInt(1)
  /\ (call.fn = "findSimilarTraces" /\ call.out # None /\ tokenize(call.query) # <<>>) =>
       \A i \in 1..Len(call.pool) :
         traceToText(call.pool[i]) = call.query => ScoreIsOne(call.scores[i])

====
